---- MODULE Spec2Model ----
(***************************************************************************)
(* Model of the timetabling engine ScheduleService.calculate_with_cp       *)
(* (src/app/services/schedule.py).  One request is followed from its       *)
(* input DTO through preprocessing, calendar indexing, occupancy           *)
(* compilation, the CP-SAT model, the solve and the decoding of the        *)
(* solver's values into the result DTO.                                    *)
(*                                                                         *)
(* Dates are day numbers; day 0 is 2024-09-02, a Monday.  Date strings are *)
(* the ISO strings the DTOs carry; strftime / fromisoformat convert.       *)
(* Python's None is the empty tuple, a present value v is <<v>>.           *)
(***************************************************************************)
EXTENDS Integers, Sequences, FiniteSets, TLC

(* ----------------------------- bounds ---------------------------------- *)
\* the semester starts on day 0..MaxStartOffset (every weekday for 6)
MaxStartOffset == 6
\* the semester lasts at most MaxSemesterDays days
MaxSemesterDays == 15
\* totalSemesterSessions of a course ranges over 1..MaxSessions
MaxSessions == 3
\* registeredStudents of a course ranges over 0..MaxStudents
MaxStudents == 3

(* --------------------------- generic helpers --------------------------- *)
Range(s) == {s[i] : i \in 1..Len(s)}

Max(S) == CHOOSE m \in S : \A x \in S : x <= m

Min(S) == CHOOSE m \in S : \A x \in S : m <= x

RECURSIVE SumSeq(_)
SumSeq(s) == IF s = <<>> THEN 0 ELSE s[1] + SumSeq(Tail(s))

None == <<>>

\* the quotient rounded down instead of up
ceil_div_floor(a, b) == a \div b

\* math.ceil(a / b) for a >= 0, b > 0
ceil_div(a, b) == (a + b - 1) \div b

\* {key(x): i for i, x in enumerate(list)}: the last position of a key wins
DictFromList(keys) ==
    [k \in Range(keys) |-> Max({i \in 1..Len(keys) : keys[i] = k}) - 1]

\* dict.get(k): <<value>> or None
DictGet(d, k) == IF k \in DOMAIN d THEN <<d[k]>> ELSE None

(* ------------------------------- dates --------------------------------- *)
Pad2(n) == IF n < 10 THEN "0" \o ToString(n) ELSE ToString(n)

\* date.strftime("%Y-%m-%d") of day number d (September has 30 days)
strftime(d) ==
    IF d + 2 <= 30 THEN "2024-09-" \o Pad2(d + 2)
    ELSE "2024-10-" \o Pad2(d - 28)

\* the day numbers the model's date strings can denote
DateUniverse == 0..(MaxStartOffset + MaxSemesterDays + 7)

\* date.fromisoformat(s)
fromisoformat(s) == CHOOSE d \in DateUniverse : strftime(d) = s

\* date.isoweekday(): 1 = Monday .. 7 = Sunday
isoweekday(d) == (d % 7) + 1

\* date.weekday(): 0 = Monday .. 6 = Sunday
weekday(d) == d % 7

day_name_map_from_iso ==
    <<"MONDAY", "TUESDAY", "WEDNESDAY", "THURSDAY", "FRIDAY", "SATURDAY", "SUNDAY">>

\* the week counted in calendar weeks (Monday to Sunday) instead of from the start date
get_semester_week_and_day_indices_calendar_week(target_date, semester_start_date, days_of_week_map) ==
    IF target_date < semester_start_date THEN <<None, None>>
    ELSE LET semester_week_index == (target_date \div 7) - (semester_start_date \div 7)
             target_day_name == day_name_map_from_iso[isoweekday(target_date)]
         IN  IF target_day_name \in DOMAIN days_of_week_map
             THEN <<<<semester_week_index>>, <<days_of_week_map[target_day_name]>>>>
             ELSE <<<<semester_week_index>>, None>>

\* get_semester_week_and_day_indices: <<week, day>>, each <<v>> or None
get_semester_week_and_day_indices(target_date, semester_start_date, days_of_week_map) ==
    IF target_date < semester_start_date THEN <<None, None>>
    ELSE LET delta_days == target_date - semester_start_date
             semester_week_index == delta_days \div 7
             target_day_name == day_name_map_from_iso[isoweekday(target_date)]
         IN  IF target_day_name \in DOMAIN days_of_week_map
             THEN <<<<semester_week_index>>, <<days_of_week_map[target_day_name]>>>>
             ELSE <<<<semester_week_index>>, None>>

(* ------------------- 2. course preprocessing --------------------------- *)
RECURSIVE sessions_per_week_loop(_, _, _, _)
\* the while loop of _get_sessions_per_week, entered with current_sessions_per_week
sessions_per_week_loop(total_semester_sessions, total_semester_weeks_available, max_sessions_per_week_allowed, current_sessions_per_week) ==
    IF current_sessions_per_week <= max_sessions_per_week_allowed
    THEN LET calculated_total_weeks_for_course ==
                 ceil_div(total_semester_sessions, current_sessions_per_week)
         IN  IF calculated_total_weeks_for_course <= total_semester_weeks_available
             THEN [raised |-> FALSE,
                   value |-> <<current_sessions_per_week, calculated_total_weeks_for_course>>]
             ELSE IF current_sessions_per_week = max_sessions_per_week_allowed
                  THEN [raised |-> TRUE, value |-> <<0, 0>>]
                  ELSE sessions_per_week_loop(total_semester_sessions,
                                              total_semester_weeks_available,
                                              max_sessions_per_week_allowed,
                                              current_sessions_per_week + 1)
    ELSE [raised |-> TRUE, value |-> <<0, 0>>]

\* ScheduleService._get_sessions_per_week: (sessions/week, course weeks) or ValueError
get_sessions_per_week(total_semester_sessions, total_semester_weeks_available, max_sessions_per_week_allowed) ==
    IF total_semester_sessions <= 0 THEN [raised |-> FALSE, value |-> <<0, 0>>]
    ELSE IF total_semester_weeks_available <= 0 THEN [raised |-> TRUE, value |-> <<0, 0>>]
    ELSE sessions_per_week_loop(total_semester_sessions, total_semester_weeks_available,
                                max_sessions_per_week_allowed, 1)

\* CoursePropertiesInternal(course_dto, sessions_p_week, total_course_weeks)
CoursePropertiesInternal(course_dto, sessions_p_week, total_course_weeks) ==
    [courseId |-> course_dto.courseId,
     totalSemesterSessions |-> course_dto.totalSemesterSessions,
     registeredStudents |-> course_dto.registeredStudents,
     potentialLecturerIds |-> course_dto.potentialLecturerIds,
     sessionsPerWeek |-> sessions_p_week,
     totalCourseWeeks |-> total_course_weeks]

\* the number of groups rounded down instead of up
num_groups_for_course_floor(registeredStudents, groupSizeTarget) ==
    LET m == registeredStudents \div groupSizeTarget
    IN  IF m = 0 /\ registeredStudents > 0 THEN 1 ELSE m

\* math.ceil(registeredStudents / groupSizeTarget), forced to 1 when it is 0 with students
num_groups_for_course(registeredStudents, groupSizeTarget) ==
    LET m == ceil_div(registeredStudents, groupSizeTarget)
    IN  IF m = 0 /\ registeredStudents > 0 THEN 1 ELSE m

\* the remaining students given to the last groups instead of the first
students_in_this_group_last_first(registeredStudents, num_groups, grp_idx) ==
    LET base_students_per_group == registeredStudents \div num_groups
        remaining_students == registeredStudents % num_groups
    IN  base_students_per_group
            + (IF grp_idx >= num_groups - remaining_students THEN 1 ELSE 0)

\* students_in_this_group for the 0-based grp_idx, after divmod(R, m)
students_in_this_group(registeredStudents, num_groups, grp_idx) ==
    LET base_students_per_group == registeredStudents \div num_groups
        remaining_students == registeredStudents % num_groups
    IN  base_students_per_group + (IF grp_idx < remaining_students THEN 1 ELSE 0)

RECURSIVE groups_of_course(_, _, _)
\* the for grp_idx loop: the SchedulingGroupInternal objects of one course, from grp_idx on
groups_of_course(course_props, num_groups, grp_idx) ==
    IF grp_idx >= num_groups THEN <<>>
    ELSE LET n == students_in_this_group(course_props.registeredStudents, num_groups, grp_idx)
             rest == groups_of_course(course_props, num_groups, grp_idx + 1)
         IN  IF n = 0 THEN rest
             ELSE <<[courseId |-> course_props.courseId,
                     groupNumber |-> grp_idx + 1,
                     course_props |-> course_props,
                     actual_students_in_group |-> n]>> \o rest

\* every session placed by its sequence number, the week counted one session late
emit_sessions_week_late(course_props, sessions_created_for_group, current_course_week) ==
    [j \in 1..course_props.totalSemesterSessions |->
        [course_week_number |-> (j \div course_props.sessionsPerWeek) + 1,
         session_in_course_week_number |-> ((j - 1) % course_props.sessionsPerWeek) + 1,
         overall_session_sequence_number |-> j]]

RECURSIVE emit_sessions(_, _, _)
\* the while loop that creates the SessionInternal objects of one group
emit_sessions(course_props, sessions_created_for_group, current_course_week) ==
    IF sessions_created_for_group < course_props.totalSemesterSessions
    THEN LET left == course_props.totalSemesterSessions - sessions_created_for_group
             n == IF left < course_props.sessionsPerWeek THEN left ELSE course_props.sessionsPerWeek
             this_week == [session_in_week \in 1..n |->
                             [course_week_number |-> current_course_week,
                              session_in_course_week_number |-> session_in_week,
                              overall_session_sequence_number |->
                                  sessions_created_for_group + session_in_week]]
             created == sessions_created_for_group + n
         IN  IF current_course_week + 1 > course_props.totalCourseWeeks + 2
                /\ created < course_props.totalSemesterSessions
             THEN this_week
             ELSE this_week \o emit_sessions(course_props, created, current_course_week + 1)
    ELSE <<>>

RECURSIVE preprocess_courses(_, _, _, _, _)
\* the for cs_info_dto loop: [raised, groups] after the courses from position i on
preprocess_courses(courses, i, total_calendar_weeks, maxSessionsPerWeekAllowed, groupSizeTarget) ==
    IF i > Len(courses) THEN [raised |-> FALSE, groups |-> <<>>]
    ELSE LET cs_info_dto == courses[i]
             spw == get_sessions_per_week(cs_info_dto.totalSemesterSessions,
                                          total_calendar_weeks, maxSessionsPerWeekAllowed)
         IN  IF spw.raised THEN [raised |-> TRUE, groups |-> <<>>]
             ELSE LET course_props ==
                          CoursePropertiesInternal(cs_info_dto, spw.value[1], spw.value[2])
                      rest == preprocess_courses(courses, i + 1, total_calendar_weeks,
                                                 maxSessionsPerWeekAllowed, groupSizeTarget)
                      skip == \/ course_props.registeredStudents <= 0
                              \/ course_props.totalSemesterSessions <= 0
                              \/ course_props.totalCourseWeeks <= 0
                      m == num_groups_for_course(course_props.registeredStudents,
                                                 groupSizeTarget)
                  IN  IF skip \/ m = 0 THEN rest
                      ELSE [raised |-> rest.raised,
                            groups |-> IF rest.raised THEN <<>>
                                       ELSE groups_of_course(course_props, m, 0)
                                              \o rest.groups]

RECURSIVE sessions_of_groups(_, _)
\* all_sessions_to_schedule: the sessions of every group, in group order
sessions_of_groups(groups, g) ==
    IF g > Len(groups) THEN <<>>
    ELSE LET ss == emit_sessions(groups[g].course_props, 0, 1)
         IN  [j \in 1..Len(ss) |->
                 [group |-> g,
                  course_week_number |-> ss[j].course_week_number,
                  session_in_course_week_number |-> ss[j].session_in_course_week_number,
                  overall_session_sequence_number |-> ss[j].overall_session_sequence_number]]
             \o sessions_of_groups(groups, g + 1)

(* ------------------- 1. dates and resource registry -------------------- *)
num_calendar_days_in_semester(dto) ==
    (fromisoformat(dto.semesterEndDate) - fromisoformat(dto.semesterStartDate)) + 1

\* math.ceil(num_calendar_days_in_semester / 7)
total_calendar_weeks(dto) == ceil_div(num_calendar_days_in_semester(dto), 7)

lecturer_id_to_idx(dto) == DictFromList(dto.lecturers)

lecturer_idx_to_id(dto, i) == dto.lecturers[i + 1]

room_id_to_idx(dto) == DictFromList([i \in 1..Len(dto.rooms) |-> dto.rooms[i].id])

room_idx_to_id(dto, i) == dto.rooms[i + 1].id

room_capacities_by_idx(dto, i) == dto.rooms[i + 1].capacity

timeslot_id_to_idx(dto) == DictFromList(dto.timeSlots)

timeslot_idx_to_id(dto, i) == dto.timeSlots[i + 1]

day_name_to_idx(dto) == DictFromList(dto.daysOfWeek)

day_idx_to_name(dto, i) == dto.daysOfWeek[i + 1]

(* ------------------- 3. calendar indexer ------------------------------- *)
\* lexicographic order of (week, day, shift) tuples, as list.sort() orders them
TupleLeq(a, b) ==
    \/ a[1] < b[1]
    \/ a[1] = b[1] /\ a[2] < b[2]
    \/ a[1] = b[1] /\ a[2] = b[2] /\ a[3] <= b[3]

RECURSIVE InsertSorted(_, _)
InsertSorted(sorted, x) ==
    IF sorted = <<>> THEN <<x>>
    ELSE IF TupleLeq(sorted[Len(sorted)], x) THEN Append(sorted, x)
    ELSE Append(InsertSorted(SubSeq(sorted, 1, Len(sorted) - 1), x), sorted[Len(sorted)])

RECURSIVE SortTuples(_)
\* list.sort() (stable) on a list of tuples
SortTuples(list) ==
    IF list = <<>> THEN <<>>
    ELSE InsertSorted(SortTuples(SubSeq(list, 1, Len(list) - 1)), list[Len(list)])

\* active_dates without the exception-date test
active_dates_ignoring_holidays(dto) ==
    LET start == fromisoformat(dto.semesterStartDate)
    IN  {d \in start..(start + num_calendar_days_in_semester(dto) - 1) :
            get_semester_week_and_day_indices(d, start, day_name_to_idx(dto))[2] # None}

\* the dates that get an entry in date_to_swk_day_map: in the semester, not an
\* exception date, and with a day name of daysOfWeek
active_dates(dto) ==
    LET start == fromisoformat(dto.semesterStartDate)
    IN  {d \in start..(start + num_calendar_days_in_semester(dto) - 1) :
            /\ strftime(d) \notin Range(dto.exceptionDates)
            /\ get_semester_week_and_day_indices(d, start, day_name_to_idx(dto))[1] # None
            /\ get_semester_week_and_day_indices(d, start, day_name_to_idx(dto))[2] # None}

\* date_to_swk_day_map: date -> (semester week index, day index)
date_to_swk_day_map(dto) ==
    [d \in active_dates(dto) |->
        LET r == get_semester_week_and_day_indices(
                     d, fromisoformat(dto.semesterStartDate), day_name_to_idx(dto))
        IN  <<r[1][1], r[2][1]>>]

RECURSIVE slots_from_day(_, _)
\* the for day_offset loop: the (week, day, shift) tuples appended from day_offset on
slots_from_day(dto, day_offset) ==
    IF day_offset >= num_calendar_days_in_semester(dto) THEN <<>>
    ELSE LET current_iter_date == fromisoformat(dto.semesterStartDate) + day_offset
             rest == slots_from_day(dto, day_offset + 1)
         IN  IF current_iter_date \in active_dates(dto)
             THEN [sh \in 1..Len(dto.timeSlots) |->
                      <<date_to_swk_day_map(dto)[current_iter_date][1],
                        date_to_swk_day_map(dto)[current_iter_date][2], sh - 1>>] \o rest
             ELSE rest

\* active_slot_details_list after its sort(); global slot idx is position - 1
active_slot_details(dto) == SortTuples(slots_from_day(dto, 0))

\* details_to_global_slot: (week, day, shift) -> global slot index
details_to_global_slot(details_list) == DictFromList(details_list)

(* ------------------- 3b. occupancy compiler ---------------------------- *)
\* the integers a resource identifier given as a digit string can denote
IdUniverse == 0..30

\* str(x).isdigit() of a resourceId: [type |-> "int" | "str", val |-> ...]
isdigit(resourceId) ==
    IF resourceId.type = "int" THEN resourceId.val >= 0
    ELSE \E n \in IdUniverse : ToString(n) = resourceId.val

\* int(x) of a resourceId for which isdigit holds
int(resourceId) ==
    IF resourceId.type = "int" THEN resourceId.val
    ELSE CHOOSE n \in IdUniverse : ToString(n) = resourceId.val

\* the global slot of one occupied-slot record, or None when it is skipped
occupied_global_slot(dto, details_list, occ_slot) ==
    LET occ_date_obj == fromisoformat(occ_slot.date)
        swk_day == DictGet(date_to_swk_day_map(dto), occ_date_obj)
        sh_idx_occ == DictGet(timeslot_id_to_idx(dto), occ_slot.timeSlotId)
    IN  IF strftime(occ_date_obj) \in Range(dto.exceptionDates) THEN None
        ELSE IF swk_day = None \/ sh_idx_occ = None THEN None
        ELSE DictGet(details_to_global_slot(details_list),
                     <<swk_day[1][1], swk_day[1][2], sh_idx_occ[1]>>)

\* r_idx_occ of a room record after the lookup by id (None when not found)
occupied_room_idx(dto, resourceId) ==
    IF isdigit(resourceId) THEN DictGet(room_id_to_idx(dto), int(resourceId)) ELSE None

\* the fallback lookup by roomNumber finds a room and reads r_obj_occ.roomId,
\* an attribute RoomInputDTO does not have: AttributeError
room_number_lookup_raises(dto, resourceId) ==
    /\ occupied_room_idx(dto, resourceId) = None
    /\ resourceId.type = "str"
    /\ \E i \in 1..Len(dto.rooms) : dto.rooms[i].roomNumber = resourceId.val

\* l_idx_occ of a lecturer record (None when unknown)
occupied_lecturer_idx(dto, resourceId) ==
    IF isdigit(resourceId) THEN DictGet(lecturer_id_to_idx(dto), int(resourceId)) ELSE None

RECURSIVE compile_occupied_slots(_, _, _)
\* the for occ_slot loop from record i on:
\* [raised, rooms: list of (room idx, slot), lecturers: list of (lecturer idx, slot)]
compile_occupied_slots(dto, details_list, i) ==
    IF i > Len(dto.occupiedSlots) THEN [raised |-> FALSE, rooms |-> <<>>, lecturers |-> <<>>]
    ELSE LET occ_slot == dto.occupiedSlots[i]
             gs == occupied_global_slot(dto, details_list, occ_slot)
             rest == compile_occupied_slots(dto, details_list, i + 1)
             r_idx_occ == occupied_room_idx(dto, occ_slot.resourceId)
             l_idx_occ == occupied_lecturer_idx(dto, occ_slot.resourceId)
         IN  IF gs = None THEN rest
             ELSE IF occ_slot.resourceType = "room"
             THEN IF room_number_lookup_raises(dto, occ_slot.resourceId)
                  THEN [raised |-> TRUE, rooms |-> <<>>, lecturers |-> <<>>]
                  ELSE IF r_idx_occ = None THEN rest
                  ELSE [rest EXCEPT !.rooms = <<<<r_idx_occ[1], gs[1]>>>> \o @]
             ELSE IF l_idx_occ = None THEN rest
                  ELSE [rest EXCEPT !.lecturers = <<<<l_idx_occ[1], gs[1]>>>> \o @]

\* the attributes the loop over existingSchedules reads from a record
ExistingRecordAttributes ==
    {"start_date", "end_date", "day_of_week", "time_slot_id", "room_id", "lecturer_id"}

RECURSIVE existing_record_pairs(_, _, _, _)
\* the while current_date_iter <= record_end_obj loop of one record, from date
\* current_date_iter on: [rooms, lecturers], the pairs it appends
existing_record_pairs(dto, details_list, existing_record, current_date_iter) ==
    IF current_date_iter > existing_record.end_date
    THEN [rooms |-> <<>>, lecturers |-> <<>>]
    ELSE LET iter == get_semester_week_and_day_indices(
                         current_date_iter, fromisoformat(dto.semesterStartDate),
                         day_name_to_idx(dto))
             occupied_day_idx_in_week == day_name_to_idx(dto)[existing_record.day_of_week]
             occupied_timeslot_idx ==
                 DictGet(timeslot_id_to_idx(dto), existing_record.time_slot_id)
             gs == DictGet(details_to_global_slot(details_list),
                           <<iter[1][1], iter[2][1], occupied_timeslot_idx[1]>>)
             r_idx_occ == DictGet(room_id_to_idx(dto), existing_record.room_id)
             l_idx_occ == DictGet(lecturer_id_to_idx(dto), existing_record.lecturer_id)
             rest == existing_record_pairs(dto, details_list, existing_record,
                                           current_date_iter + 1)
         IN  IF \/ iter[1] = None
                \/ iter[2] # <<occupied_day_idx_in_week>>
                \/ strftime(current_date_iter) \in Range(dto.exceptionDates)
             THEN rest
             ELSE IF gs = None THEN rest
             ELSE [rooms |-> (IF r_idx_occ = None THEN <<>>
                              ELSE <<<<r_idx_occ[1], gs[1]>>>>) \o rest.rooms,
                   lecturers |-> (IF l_idx_occ = None THEN <<>>
                                  ELSE <<<<l_idx_occ[1], gs[1]>>>>) \o rest.lecturers]

RECURSIVE compile_existing_schedules(_, _, _)
\* the for existing_record loop from record i on. The body reads existing_record.start_date
\* first; a record without that attribute raises AttributeError inside the try, the
\* except Exception clause logs it and the loop goes on with the next record
compile_existing_schedules(dto, details_list, i) ==
    IF i > Len(dto.existingSchedules) THEN [rooms |-> <<>>, lecturers |-> <<>>]
    ELSE LET existing_record == dto.existingSchedules[i]
             rest == compile_existing_schedules(dto, details_list, i + 1)
             this == IF ~(ExistingRecordAttributes \subseteq DOMAIN existing_record)
                     THEN [rooms |-> <<>>, lecturers |-> <<>>]
                     ELSE IF \/ existing_record.day_of_week \notin DOMAIN day_name_to_idx(dto)
                             \/ DictGet(timeslot_id_to_idx(dto),
                                        existing_record.time_slot_id) = None
                          THEN [rooms |-> <<>>, lecturers |-> <<>>]
                          ELSE existing_record_pairs(dto, details_list, existing_record,
                                                     existing_record.start_date)
         IN  [rooms |-> this.rooms \o rest.rooms,
              lecturers |-> this.lecturers \o rest.lecturers]

(* ------------------------------ state ---------------------------------- *)
VARIABLES
    input_dto,                          \* the ScheduleInputDTO of the request
    pc,                                 \* BUILDING, SOLVING, SOLVED, RETURNED, RAISED
    all_scheduling_groups,              \* list of SchedulingGroupInternal
    all_sessions_to_schedule,           \* list of SessionInternal
    active_slot_details_list,           \* sorted (week, day, shift); index = global slot
    occupied_lecturer_intervals_data,   \* list of (lecturer idx, global slot)
    occupied_room_intervals_data,       \* list of (room idx, global slot)
    solution_status_code,               \* the CpSolverStatus solver.Solve returned
    solution_status_name,               \* solver.StatusName(solution_status_code)
    solver_values,                      \* solver.Value of every group's variables
    decoder_ran,                        \* the OPTIMAL/FEASIBLE branch of step 8 was taken
    result,                             \* the returned DTO, or the raised HTTPException
    model_created,                      \* model = cp_model.CpModel() was executed
    inbox,                              \* the ScheduleInputDTO of every request received
    handler_state,                      \* per request: PENDING, RUNNING, DONE
    responses,                          \* per request: what calculate_with_cp gave back
    spw_call,                           \* the locals of one _get_sessions_per_week call
    prep_call,                          \* the locals of the processing of one course
    auth_call                           \* one request passing through AuthMiddleware.dispatch

vars == <<input_dto, pc, all_scheduling_groups, all_sessions_to_schedule,
          active_slot_details_list, occupied_lecturer_intervals_data,
          occupied_room_intervals_data, solution_status_code,
          solution_status_name, solver_values, decoder_ran, result, model_created,
          inbox, handler_state, responses, spw_call,
                   prep_call, auth_call>>

(* ------------------- 4./5. the CP model -------------------------------- *)
num_lecturers == Len(input_dto.lecturers)

num_rooms == Len(input_dto.rooms)

num_shifts_per_day == Len(input_dto.timeSlots)

num_days_per_week == Len(input_dto.daysOfWeek)

num_total_active_slots == Len(active_slot_details_list)

\* global_slot_to_details[gs]
global_slot_to_details(gs) == active_slot_details_list[gs + 1]

\* potential_lect_indices of a course: the indices of its known potential lecturers
potential_lect_indices(dto, course_p) ==
    {lecturer_id_to_idx(dto)[course_p.potentialLecturerIds[i]] :
        i \in {j \in 1..Len(course_p.potentialLecturerIds) :
                  course_p.potentialLecturerIds[j] \in DOMAIN lecturer_id_to_idx(dto)}}

\* max_start_week of a group
max_start_week(dto, course_p) == total_calendar_weeks(dto) - course_p.totalCourseWeeks

\* LecturerDomain without AddAllowedAssignments
LecturerDomain_unrestricted(group) == 0..(num_lecturers - 1)

\* domain of assigned_lecturer_var with AddAllowedAssignments
LecturerDomain(group) ==
    {l \in 0..(num_lecturers - 1) :
        l \in potential_lect_indices(input_dto, group.course_props)}

\* domain of start_semester_week_var
StartWeekDomain(group) == 0..max_start_week(input_dto, group.course_props)

\* AddAllDifferent on day * num_shifts_per_day + shift of the weekly tuples
WeeklyAllDifferent(group, weekly) ==
    group.course_props.sessionsPerWeek > 1 =>
        \A i, j \in 1..Len(weekly) :
            i # j => weekly[i].day * num_shifts_per_day + weekly[i].shift
                     # weekly[j].day * num_shifts_per_day + weekly[j].shift

\* RoomCapacity compared with nothing but the variable's domain
RoomCapacity_unchecked(group, weekly) ==
    \A i \in 1..Len(weekly) : room_capacities_by_idx(input_dto, weekly[i].room) >= 0

\* RB_RoomCapacity: the capacity variable, in 0..max(capacities), is the room's
\* capacity (AddElement) and is at least the group's student count
RoomCapacity(group, weekly) ==
    \A i \in 1..Len(weekly) :
        LET cap == room_capacities_by_idx(input_dto, weekly[i].room)
        IN  /\ cap >= 0
            /\ cap <= Max({input_dto.rooms[r].capacity : r \in 1..num_rooms})
            /\ cap >= group.actual_students_in_group

\* the values of fixed_weekly_day/shift/room_vars a group can take
WeeklyDomain(group) ==
    {weekly \in [1..group.course_props.sessionsPerWeek ->
                    [day : 0..(num_days_per_week - 1),
                     shift : 0..(num_shifts_per_day - 1),
                     room : 0..(num_rooms - 1)]] :
        WeeklyAllDifferent(group, weekly) /\ RoomCapacity(group, weekly)}

\* SessionSlotDomain with the shift of every session tied to the first weekly tuple
SessionSlotDomain_shift_of_first(session, start_week, weekly) ==
    {gs \in 0..(num_total_active_slots - 1) :
        /\ global_slot_to_details(gs)[1] = start_week + (session.course_week_number - 1)
        /\ global_slot_to_details(gs)[2] = weekly[session.session_in_course_week_number].day
        /\ global_slot_to_details(gs)[3] = weekly[1].shift}

\* SessionSlotDomain with the course week taken as 0-based
SessionSlotDomain_week_off_by_one(session, start_week, weekly) ==
    {gs \in 0..(num_total_active_slots - 1) :
        /\ global_slot_to_details(gs)[1] = start_week + session.course_week_number
        /\ global_slot_to_details(gs)[2] = weekly[session.session_in_course_week_number].day
        /\ global_slot_to_details(gs)[3] = weekly[session.session_in_course_week_number].shift}

\* the values assigned_global_slot_var of a session can take: the AddElement lookups
\* give its week, day and shift, tied to the group's start week and weekly tuple
SessionSlotDomain(session, start_week, weekly) ==
    {gs \in 0..(num_total_active_slots - 1) :
        /\ global_slot_to_details(gs)[1] = start_week + (session.course_week_number - 1)
        /\ global_slot_to_details(gs)[2] = weekly[session.session_in_course_week_number].day
        /\ global_slot_to_details(gs)[3] = weekly[session.session_in_course_week_number].shift}

\* positions in all_sessions_to_schedule of the sessions of group g
SessionsOfGroup(g) ==
    {j \in 1..Len(all_sessions_to_schedule) : all_sessions_to_schedule[j].group = g}

RECURSIVE SlotAssignments(_, _, _)
\* the values of assigned_global_slot_var of the sessions J (positions in
\* all_sessions_to_schedule), as a function J -> global slot
SlotAssignments(J, start_week, weekly) ==
    IF J = {} THEN {<<>>}
    ELSE LET j == CHOOSE x \in J : TRUE
         IN  {f @@ (j :> gs) :
                f \in SlotAssignments(J \ {j}, start_week, weekly),
                gs \in SessionSlotDomain(all_sessions_to_schedule[j], start_week, weekly)}

\* the assignments of one group's variables that satisfy the group's own constraints
GroupAssignments(g) ==
    LET group == all_scheduling_groups[g]
    IN  UNION {
          {[lecturer |-> a.lecturer, start_week |-> a.start_week, weekly |-> a.weekly,
            global_slot |-> f] :
              f \in SlotAssignments(SessionsOfGroup(g), a.start_week, a.weekly)} :
          a \in [lecturer : LecturerDomain(group),
                 start_week : StartWeekDomain(group),
                 weekly : WeeklyDomain(group)]}

\* solver.Value(session.assigned_global_slot_var) of session j
SessionSlot(j, a) == a.global_slot[j]

RECURSIVE SeqProduct(_, _)
\* the sequences of length n whose g-th element is in GroupAssignments(g)
SeqProduct(g, n) ==
    IF g > n THEN {<<>>}
    ELSE LET firsts == GroupAssignments(g)
             rests == SeqProduct(g + 1, n)
         IN  {<<a>> \o rest : a \in firsts, rest \in rests}

\* NoOverlap2D never added to the model
NoOverlap2D_missing(rects) == TRUE

\* AddNoOverlap2D over unit rectangles given by their (x, y) corners
NoOverlap2D(rects) ==
    \A i, j \in 1..Len(rects) : i # j => rects[i] # rects[j]

\* lecturer_intervals with every session skipped
lecturer_intervals_occupied_only(values) == occupied_lecturer_intervals_data

\* the (lecturer, global slot) rectangles: occupied ones, then one per session
lecturer_intervals(values) ==
    occupied_lecturer_intervals_data \o
    [j \in 1..Len(all_sessions_to_schedule) |->
        LET g == all_sessions_to_schedule[j].group
        IN  <<values[g].lecturer, SessionSlot(j, values[g])>>]

\* room_intervals with every session skipped
room_intervals_occupied_only(values) == occupied_room_intervals_data

\* the (room, global slot) rectangles: occupied ones, then one per session
room_intervals(values) ==
    occupied_room_intervals_data \o
    [j \in 1..Len(all_sessions_to_schedule) |->
        LET g == all_sessions_to_schedule[j].group
            i == all_sessions_to_schedule[j].session_in_course_week_number
        IN  <<values[g].weekly[i].room, SessionSlot(j, values[g])>>]

\* the assignments that satisfy every constraint of the model
Solutions ==
    {values \in SeqProduct(1, Len(all_scheduling_groups)) :
        /\ NoOverlap2D(lecturer_intervals(values))
        /\ NoOverlap2D(room_intervals(values))}

(* ------------------- 6. objective -------------------------------------- *)
\* actual_lecturer_loads_vars[l_idx] counting the groups, not their sessions
actual_lecturer_load_groups(values, l_idx) ==
    Cardinality({g \in 1..Len(all_scheduling_groups) : values[g].lecturer = l_idx})

\* actual_lecturer_loads_vars[l_idx]: sessions of the groups assigned lecturer l_idx
actual_lecturer_load(values, l_idx) ==
    Cardinality({j \in 1..Len(all_sessions_to_schedule) :
                    values[all_sessions_to_schedule[j].group].lecturer = l_idx})

\* "BALANCE_LOAD" in objectiveStrategy.value
balance_load_active(dto) ==
    dto.objectiveStrategy.value \in {"BALANCE_LOAD", "BALANCE_LOAD_AND_EARLY_START"}

\* "EARLY_START" in objectiveStrategy.value
early_start_active(dto) ==
    dto.objectiveStrategy.value \in {"EARLY_START", "BALANCE_LOAD_AND_EARLY_START"}

load_difference(values) ==
    LET loads == {actual_lecturer_load(values, l) : l \in 0..(num_lecturers - 1)}
    IN  Max(loads) - Min(loads)

sum_of_start_weeks(values) ==
    SumSeq([g \in 1..Len(values) |-> values[g].start_week])

\* total_objective_var without the EARLY_START term
total_objective_balance_only(values) ==
    IF balance_load_active(input_dto) THEN load_difference(values) ELSE 0

\* total_objective_var: the sum of the active objective terms
total_objective(values) ==
    (IF balance_load_active(input_dto) THEN load_difference(values) ELSE 0)
    + (IF early_start_active(input_dto) THEN sum_of_start_weeks(values) ELSE 0)

(* ------------------- 7. solver status ---------------------------------- *)
\* the values of CpSolverStatus (cp_model.UNKNOWN .. cp_model.OPTIMAL)
UNKNOWN == 0
MODEL_INVALID == 1
FEASIBLE == 2
INFEASIBLE == 3
OPTIMAL == 4

\* StatusName with the status of a solve stopped by the time limit named TIMEOUT
StatusName_timeout(status) ==
    CASE status = UNKNOWN -> "TIMEOUT"
      [] status = MODEL_INVALID -> "MODEL_INVALID"
      [] status = FEASIBLE -> "FEASIBLE"
      [] status = INFEASIBLE -> "INFEASIBLE"
      [] status = OPTIMAL -> "OPTIMAL"

\* solver.StatusName(status): the name of the CpSolverStatus value
StatusName(status) ==
    CASE status = UNKNOWN -> "UNKNOWN"
      [] status = MODEL_INVALID -> "MODEL_INVALID"
      [] status = FEASIBLE -> "FEASIBLE"
      [] status = INFEASIBLE -> "INFEASIBLE"
      [] status = OPTIMAL -> "OPTIMAL"

(* ------------------- 8. result decoder --------------------------------- *)
\* course_properties_map[course_id]: the properties of the last course with that id
course_properties_map(dto, course_id) ==
    LET i == Max({j \in 1..Len(dto.coursesToSchedule) :
                     dto.coursesToSchedule[j].courseId = course_id})
        spw == get_sessions_per_week(dto.coursesToSchedule[i].totalSemesterSessions,
                                     total_calendar_weeks(dto), dto.maxSessionsPerWeekAllowed)
    IN  CoursePropertiesInternal(dto.coursesToSchedule[i], spw.value[1], spw.value[2])

RECURSIVE course_ids_in_order(_, _)
\* the keys of groups_by_course in insertion order, from group g on, given those seen
course_ids_in_order(g, seen) ==
    IF g > Len(all_scheduling_groups) THEN <<>>
    ELSE LET cid == all_scheduling_groups[g].course_props.courseId
         IN  IF cid \in seen THEN course_ids_in_order(g + 1, seen)
             ELSE <<cid>> \o course_ids_in_order(g + 1, seen \cup {cid})

RECURSIVE groups_by_course(_, _)
\* groups_by_course[course_id]: positions of the course's groups, in order, from g on
groups_by_course(course_id, g) ==
    IF g > Len(all_scheduling_groups) THEN <<>>
    ELSE IF all_scheduling_groups[g].course_props.courseId = course_id
         THEN <<g>> \o groups_by_course(course_id, g + 1)
         ELSE groups_by_course(course_id, g + 1)

\* WeeklyScheduleDetailDTO of the i-th weekly tuple of a group
WeeklyScheduleDetailDTO(dto, weekly_tuple) ==
    [dayOfWeek |-> day_idx_to_name(dto, weekly_tuple.day),
     timeSlotId |-> timeslot_idx_to_id(dto, weekly_tuple.shift),
     roomId |-> room_idx_to_id(dto, weekly_tuple.room)]

\* weekly_details_for_this_group sorted by (day index, shift index)
weekly_details_sorted_by_slot(dto, weekly) ==
    LET sorted == SortTuples([i \in 1..Len(weekly) |->
                                <<weekly[i].day, weekly[i].shift, weekly[i].room>>])
    IN  [i \in 1..Len(weekly) |->
            WeeklyScheduleDetailDTO(dto, [day |-> sorted[i][1], shift |-> sorted[i][2],
                                          room |-> sorted[i][3]])]

\* weekly_details_for_this_group: one WeeklyScheduleDetailDTO appended per
\* i_sess_wk_0based in range(sessionsPerWeek), from the values of the i-th fixed
\* weekly day, shift and room variables
weekly_details_for_this_group(dto, weekly) ==
    [i \in 1..Len(weekly) |-> WeeklyScheduleDetailDTO(dto, weekly[i])]

\* ClassGroupScheduledDTO of group g under the solver's values
ClassGroupScheduledDTO(dto, g, values) ==
    LET group == all_scheduling_groups[g]
        semester_start_date_obj == fromisoformat(dto.semesterStartDate)
        start_sem_week_val_0based == values[g].start_week
        group_actual_start_date_obj == semester_start_date_obj + 7 * start_sem_week_val_0based
        last_course_week_for_group_0based ==
            start_sem_week_val_0based + group.course_props.totalCourseWeeks - 1
        temp_end_date_last_week ==
            semester_start_date_obj + 7 * last_course_week_for_group_0based
        group_actual_end_date_obj ==
            temp_end_date_last_week + (6 - weekday(temp_end_date_last_week))
    IN  [groupNumber |-> group.groupNumber,
         maxStudents |-> dto.groupSizeTarget,
         lecturerId |-> lecturer_idx_to_id(dto, values[g].lecturer),
         groupStartDate |-> strftime(group_actual_start_date_obj),
         groupEndDate |-> strftime(group_actual_end_date_obj),
         totalTeachingWeeksForGroup |-> group.course_props.totalCourseWeeks,
         sessionsPerWeekForGroup |-> group.course_props.sessionsPerWeek,
         weeklyScheduleDetails |-> weekly_details_for_this_group(dto, values[g].weekly)]

\* CourseScheduledDTO of one course id
CourseScheduledDTO(dto, course_id, values) ==
    LET original_course_props == course_properties_map(dto, course_id)
        gs == groups_by_course(course_id, 1)
    IN  [courseId |-> course_id,
         totalRegisteredStudents |-> original_course_props.registeredStudents,
         totalSessionsForCourse |-> original_course_props.totalSemesterSessions,
         scheduledClassGroups |->
             [n \in 1..Len(gs) |-> ClassGroupScheduledDTO(dto, gs[n], values)]]

\* output_scheduled_courses of the OPTIMAL/FEASIBLE branch
output_scheduled_courses(dto, values) ==
    LET ids == course_ids_in_order(1, {})
    IN  [n \in 1..Len(ids) |-> CourseScheduledDTO(dto, ids[n], values)]

\* output_lecturer_loads with the last lecturer left out
output_lecturer_loads_without_last(dto, values) ==
    [n \in 1..(Len(dto.lecturers) - 1) |->
        [lecturerId |-> lecturer_idx_to_id(dto, n - 1),
         sessionsAssigned |-> actual_lecturer_load(values, n - 1)]]

\* output_lecturer_loads of the OPTIMAL/FEASIBLE branch
output_lecturer_loads(dto, values) ==
    [n \in 1..Len(dto.lecturers) |->
        [lecturerId |-> lecturer_idx_to_id(dto, n - 1),
         sessionsAssigned |-> actual_lecturer_load(values, n - 1)]]

\* solution_status_code == cp_model.OPTIMAL or solution_status_code == cp_model.FEASIBLE
solution_found(status_code) == status_code = OPTIMAL \/ status_code = FEASIBLE

\* final_message left empty when no solution was found
final_message_success_only(status_code, status_name, scheduled_courses) ==
    IF solution_found(status_code) /\ scheduled_courses # <<>>
    THEN "Schedule generated successfully."
    ELSE ""

\* final_message
final_message(status_code, status_name, scheduled_courses) ==
    IF solution_found(status_code)
    THEN IF scheduled_courses # <<>> THEN "Schedule generated successfully."
         ELSE "Feasible/Optimal solution found, but no courses were scheduled (check input or constraints)."
    ELSE "Solver finished with status: " \o status_name \o "."

\* the FinalScheduleResultDTO built at the end of calculate_with_cp
FinalScheduleResultDTO(dto, status_code, status_name, values) ==
    LET found == solution_found(status_code)
        courses == IF found THEN output_scheduled_courses(dto, values) ELSE <<>>
    IN  [kind |-> "FinalScheduleResultDTO",
         semesterStartDate |-> dto.semesterStartDate,
         semesterEndDate |-> dto.semesterEndDate,
         scheduledCourses |-> courses,
         lecturerLoad |-> IF found THEN output_lecturer_loads(dto, values) ELSE <<>>,
         loadDifference |-> IF found THEN <<load_difference(values)>> ELSE None,
         totalOriginalSessionsToSchedule |-> Len(all_sessions_to_schedule),
         solverStatus |-> status_name,
         solverMessage |-> final_message(status_code, status_name, courses)]

\* raise HTTPException(status_code=...)
HTTPException(status_code) == [kind |-> "HTTPException", status_code |-> status_code]

(* ------------------- the requests explored ----------------------------- *)
DefaultStrategy == [is_enum |-> TRUE, value |-> "BALANCE_LOAD_AND_EARLY_START"]

Course(courseId, T, R, potentialLecturerIds) ==
    [courseId |-> courseId, totalSemesterSessions |-> T, registeredStudents |-> R,
     potentialLecturerIds |-> potentialLecturerIds]

TwoRooms ==
    <<[id |-> 11, roomNumber |-> "A1", capacity |-> 1],
      [id |-> 12, roomNumber |-> "B2", capacity |-> 2]>>

\* a semester of two calendar weeks from Monday 2024-09-02, two lecturers, two rooms,
\* two shifts, classes on Tuesdays and Mondays (in this order of day index)
BaseRequest ==
    [semesterStartDate |-> strftime(0),
     semesterEndDate |-> strftime(MaxSemesterDays - 7),
     coursesToSchedule |-> <<Course(31, 1, 1, <<22, 21>>)>>,
     lecturers |-> <<21, 22>>,
     rooms |-> TwoRooms,
     timeSlots |-> <<5, 7>>,
     daysOfWeek |-> <<"TUESDAY", "MONDAY">>,
     exceptionDates |-> <<>>,
     occupiedSlots |-> <<>>,
     existingSchedules |-> <<>>,
     groupSizeTarget |-> 2,
     maxSessionsPerWeekAllowed |-> 2,
     objectiveStrategy |-> DefaultStrategy]

\* one course; every start weekday, two or three calendar weeks, with and without
\* holidays
CalendarRequests ==
    {[BaseRequest EXCEPT
        !.semesterStartDate = strftime(start),
        !.semesterEndDate = strftime(start + days - 1),
        !.exceptionDates = holidays,
        !.coursesToSchedule = <<Course(31, T, 1, <<22, 21>>)>>,
        !.maxSessionsPerWeekAllowed = spw] :
        start \in 0..MaxStartOffset,
        days \in {MaxSemesterDays - 6, MaxSemesterDays},
        holidays \in {<<>>, <<strftime(1)>>, <<strftime(7), strftime(0)>>},
        T \in 1..MaxSessions,
        spw \in 1..2}

\* one or two courses in a one-week, one-shift semester: group splitting,
\* eligibility and capacity
CourseRequests ==
    {[BaseRequest EXCEPT
        !.semesterEndDate = strftime(6),
        !.timeSlots = <<5>>,
        !.coursesToSchedule = <<Course(31, T, R, pot)>> \o second,
        !.groupSizeTarget = G] :
        T \in 1..MaxSessions,
        R \in 0..MaxStudents,
        pot \in {<<21>>, <<22, 21>>, <<99>>},
        second \in {<<>>, <<Course(32, 1, 1, <<21>>)>>, <<Course(32, 2, 2, <<21, 22>>)>>},
        G \in {MaxStudents - 1, MaxStudents}}

\* one course split in two groups over two weeks and two shifts
TwoGroupRequests ==
    {[BaseRequest EXCEPT
        !.coursesToSchedule = <<Course(31, T, MaxStudents, pot)>>,
        !.groupSizeTarget = MaxStudents - 1,
        !.rooms = rooms] :
        T \in 1..MaxSessions,
        pot \in {<<21>>, <<21, 22>>},
        rooms \in {TwoRooms, <<TwoRooms[2]>>}}

OccupiedSlotRecords ==
    [resourceType : {"room", "lecturer"},
     resourceId : {[type |-> "int", val |-> 12], [type |-> "int", val |-> 21],
                   [type |-> "str", val |-> "12"], [type |-> "str", val |-> "B2"],
                   [type |-> "str", val |-> "X9"]},
     date : {strftime(0), strftime(1), strftime(2)},
     timeSlotId : {5, 9}]

\* one course of one group that needs the larger room, with occupied slots
OccupancyRequests ==
    {[BaseRequest EXCEPT
        !.semesterEndDate = strftime(6),
        !.exceptionDates = holidays,
        !.coursesToSchedule = <<Course(31, 1, 2, <<21>>)>>,
        !.occupiedSlots = occ] :
        holidays \in {<<>>, <<strftime(1)>>},
        occ \in {<<r>> : r \in OccupiedSlotRecords}
                \cup {<<r, r>> : r \in {x \in OccupiedSlotRecords :
                                          x.date = strftime(0) /\ x.timeSlotId = 5}}}

\* load balancing: two single-group courses of the same length that both lecturers
\* can teach; and, with a third lecturer without course, a course that can go to a
\* lecturer who is free from the second week only
BalanceRequests ==
    {[BaseRequest EXCEPT
        !.timeSlots = <<5>>,
        !.coursesToSchedule = <<Course(31, T, 1, <<21, 22>>), Course(32, T, 1, <<22, 21>>)>>] :
        T \in 1..MaxSessions}
    \cup
    {[BaseRequest EXCEPT
        !.lecturers = <<21, 22, 23>>,
        !.daysOfWeek = <<"MONDAY">>,
        !.coursesToSchedule = <<Course(31, 1, 1, <<21>>), Course(32, 1, 1, <<21, 22>>)>>,
        !.occupiedSlots = occ] :
        occ \in {<<>>,
                 <<[resourceType |-> "lecturer", resourceId |-> [type |-> "int", val |-> 22],
                    date |-> strftime(0), timeSlotId |-> 5],
                   [resourceType |-> "lecturer", resourceId |-> [type |-> "int", val |-> 22],
                    date |-> strftime(0), timeSlotId |-> 7]>>}}

\* ExistingScheduleRecord(roomId, lecturerId, timeSlotId, dayOfWeek, startDate, endDate)
ExistingScheduleRecord(roomId, lecturerId, timeSlotId, dayOfWeek, startDate, endDate) ==
    [roomId |-> roomId, lecturerId |-> lecturerId, timeSlotId |-> timeSlotId,
     dayOfWeek |-> dayOfWeek, startDate |-> startDate, endDate |-> endDate]

\* one course for lecturer 21 in a one-shift semester of Mondays, and a class of an
\* earlier schedule held on Mondays: by lecturer 21 or an unknown one, in the larger
\* room or an unknown one, at the shift of the semester or an unknown one, during the
\* first week or the whole semester
ExistingScheduleRequests ==
    {[BaseRequest EXCEPT
        !.timeSlots = <<5>>,
        !.daysOfWeek = <<"MONDAY">>,
        !.exceptionDates = holidays,
        !.coursesToSchedule = <<Course(31, 1, 2, <<21>>)>>,
        !.existingSchedules =
            <<ExistingScheduleRecord(roomId, lecturerId, timeSlotId, "MONDAY",
                                     strftime(0), strftime(last))>>] :
        holidays \in {<<>>, <<strftime(7)>>},
        roomId \in {12, 99},
        lecturerId \in {21, 99},
        timeSlotId \in {5, 9},
        last \in {6, MaxSemesterDays - 7}}

\* requests with an empty resource list, a day name given twice, a strategy given as
\* a string, or a room list without any non-negative capacity
EdgeRequests ==
    {[BaseRequest EXCEPT !.rooms = <<>>],
     [BaseRequest EXCEPT !.timeSlots = <<>>],
     [BaseRequest EXCEPT !.daysOfWeek = <<>>],
     [BaseRequest EXCEPT !.coursesToSchedule = <<>>],
     [BaseRequest EXCEPT !.lecturers = <<>>],
     [BaseRequest EXCEPT !.daysOfWeek = <<"SUNDAY">>, !.semesterEndDate = strftime(1)],
     [BaseRequest EXCEPT !.daysOfWeek = <<"MONDAY", "TUESDAY", "MONDAY">>],
     [BaseRequest EXCEPT !.objectiveStrategy =
                             [is_enum |-> FALSE, value |-> "BALANCE_LOAD_AND_EARLY_START"]],
     [BaseRequest EXCEPT !.objectiveStrategy =
                             [is_enum |-> FALSE, value |-> "FEASIBLE_ONLY"]],
     [BaseRequest EXCEPT !.rooms = <<[id |-> 11, roomNumber |-> "A1", capacity |-> -1]>>]}

Requests ==
    CalendarRequests \cup CourseRequests \cup TwoGroupRequests
        \cup OccupancyRequests \cup ExistingScheduleRequests \cup BalanceRequests
        \cup EdgeRequests

(* ------------------------------ actions -------------------------------- *)
\* no call is being followed step by step
NoCall ==
    [pc |-> "IDLE", total_semester_sessions |-> 0, total_semester_weeks_available |-> 0,
     max_sessions_per_week_allowed |-> 0, current_sessions_per_week |-> 0,
     returned |-> None]

Init ==
    /\ input_dto \in Requests
    /\ pc = "BUILDING"
    /\ all_scheduling_groups = <<>>
    /\ all_sessions_to_schedule = <<>>
    /\ active_slot_details_list = <<>>
    /\ occupied_lecturer_intervals_data = <<>>
    /\ occupied_room_intervals_data = <<>>
    /\ solution_status_code = UNKNOWN
    /\ solution_status_name = "NOT_SOLVED"
    /\ solver_values = <<>>
    /\ decoder_ran = FALSE
    /\ result = [kind |-> "none"]
    /\ model_created = FALSE
    /\ inbox = <<>>
    /\ handler_state = <<>>
    /\ responses = <<>>
    /\ spw_call = NoCall
    /\ prep_call = NoCall
    /\ auth_call = NoCall

NoException == [type |-> "none", of |-> "none"]

\* the exception steps 1..3 raise for a request (registry, preprocessing, calendar,
\* occupancy: all before model = cp_model.CpModel()): its type and what it is about
ExceptionBeforeModel(dto) ==
    IF Len(dto.rooms) = 0 THEN [type |-> "ValueError", of |-> "rooms"]
    ELSE IF Len(dto.timeSlots) = 0 THEN [type |-> "ValueError", of |-> "timeSlots"]
    ELSE IF Len(dto.daysOfWeek) = 0 THEN [type |-> "ValueError", of |-> "daysOfWeek"]
    ELSE LET pre == preprocess_courses(dto.coursesToSchedule, 1, total_calendar_weeks(dto),
                                       dto.maxSessionsPerWeekAllowed, dto.groupSizeTarget)
             details == active_slot_details(dto)
         IN  IF pre.raised THEN [type |-> "ValueError", of |-> "course does not fit"]
             \* FinalScheduleResultDTO(generatedWeeklySchedules=...) lacks required
             \* fields: pydantic's ValidationError is a ValueError
             ELSE IF sessions_of_groups(pre.groups, 1) = <<>>
                  THEN [type |-> "ValidationError", of |-> "FinalScheduleResultDTO"]
             ELSE IF details = <<>> THEN [type |-> "ValueError", of |-> "active slots"]
             ELSE IF compile_occupied_slots(dto, details, 1).raised
                  THEN [type |-> "AttributeError", of |-> "roomId"]
             ELSE NoException

\* the exception steps 4..6 raise while the model is built (the loop that creates the
\* variables of every group, then the objective)
ExceptionInModel(dto) ==
    LET pre == preprocess_courses(dto.coursesToSchedule, 1, total_calendar_weeks(dto),
                                  dto.maxSessionsPerWeekAllowed, dto.groupSizeTarget)
    IN  IF \E g \in 1..Len(pre.groups) :
              max_start_week(dto, pre.groups[g].course_props) < 0
        THEN [type |-> "ValueError", of |-> "course longer than semester"]
        ELSE IF \E g \in 1..Len(pre.groups) :
                   potential_lect_indices(dto, pre.groups[g].course_props) = {}
        THEN [type |-> "ValueError", of |-> "potentialLecturerIds"]
        \* objectiveStrategy.value of a str
        ELSE IF ~dto.objectiveStrategy.is_enum
        THEN [type |-> "AttributeError", of |-> "objectiveStrategy"]
        ELSE NoException

\* the exception raised in the try block before solver.Solve
ExceptionRaised(dto) ==
    IF ExceptionBeforeModel(dto) # NoException THEN ExceptionBeforeModel(dto)
    ELSE ExceptionInModel(dto)

\* the except clauses without the one for ValueError
HandlerStatus_no_ValueError_clause(exception_type) ==
    IF exception_type = "none" THEN 0 ELSE 500

\* the except clauses: a ValueError (pydantic's ValidationError is one) becomes
\* HTTPException(400), any other exception HTTPException(500)
HandlerStatus(exception_type) ==
    IF exception_type = "none" THEN 0
    ELSE IF exception_type \in {"ValueError", "ValidationError"} THEN 400
    ELSE 500

\* the HTTP status of the exception steps 1..3 raise for a request, 0 when none
FailureBeforeModel(dto) == HandlerStatus(ExceptionBeforeModel(dto).type)

\* the HTTP status of the exception steps 1..6 raise for a request, 0 when none
BuildFailure(dto) == HandlerStatus(ExceptionRaised(dto).type)

\* steps 1..6 of calculate_with_cp: registry, preprocessing, calendar, occupancy,
\* model construction; ends in the solver call or in an HTTPException
Build ==
    /\ pc = "BUILDING"
    /\ UNCHANGED <<input_dto, solution_status_code, solution_status_name, solver_values,
                   decoder_ran, inbox, handler_state, responses, spw_call,
                   prep_call, auth_call>>
    /\ model_created' = (FailureBeforeModel(input_dto) = 0)
    /\ IF BuildFailure(input_dto) # 0
       THEN /\ pc' = "RAISED"
            /\ result' = HTTPException(BuildFailure(input_dto))
            /\ UNCHANGED <<all_scheduling_groups, all_sessions_to_schedule,
                           active_slot_details_list, occupied_lecturer_intervals_data,
                           occupied_room_intervals_data>>
       ELSE LET pre == preprocess_courses(input_dto.coursesToSchedule, 1,
                                          total_calendar_weeks(input_dto),
                                          input_dto.maxSessionsPerWeekAllowed,
                                          input_dto.groupSizeTarget)
                details == active_slot_details(input_dto)
                existing == compile_existing_schedules(input_dto, details, 1)
                occ == compile_occupied_slots(input_dto, details, 1)
            IN  /\ pc' = "SOLVING"
                /\ all_scheduling_groups' = pre.groups
                /\ all_sessions_to_schedule' = sessions_of_groups(pre.groups, 1)
                /\ active_slot_details_list' = details
                /\ occupied_lecturer_intervals_data' = existing.lecturers \o occ.lecturers
                /\ occupied_room_intervals_data' = existing.rooms \o occ.rooms
                /\ UNCHANGED result

\* a variable of the model has an empty domain: NewIntVar(0, max(capacities)) with
\* only negative capacities
ModelInvalid == Max({input_dto.rooms[r].capacity : r \in 1..num_rooms}) < 0

\* objective_terms is not empty
HasObjective == balance_load_active(input_dto) \/ early_start_active(input_dto)

\* the solutions whose total_objective_var is the least possible
OptimalSolutions ==
    UNION {UNION {{values \in sols : total_objective(values) = best} :
                     best \in {Min({total_objective(values) : values \in sols})}} :
              sols \in {Solutions} \ {{}}}

\* solver.Solve(model) proves a solution optimal
SolveOptimal ==
    /\ pc = "SOLVING"
    /\ UNCHANGED <<model_created, inbox, handler_state, responses, spw_call,
                   prep_call, auth_call>>
    /\ ~ModelInvalid
    /\ \E values \in OptimalSolutions : solver_values' = values
    /\ solution_status_code' = OPTIMAL
    /\ solution_status_name' = StatusName(OPTIMAL)
    /\ pc' = "SOLVED"
    /\ UNCHANGED <<input_dto, all_scheduling_groups, all_sessions_to_schedule,
                   active_slot_details_list, occupied_lecturer_intervals_data,
                   occupied_room_intervals_data, decoder_ran, result>>

\* solver.Solve(model) stops at the time limit with a solution not proved optimal
SolveFeasible ==
    /\ pc = "SOLVING"
    /\ UNCHANGED <<model_created, inbox, handler_state, responses, spw_call,
                   prep_call, auth_call>>
    /\ ~ModelInvalid
    /\ HasObjective
    /\ \E values \in Solutions : solver_values' = values
    /\ solution_status_code' = FEASIBLE
    /\ solution_status_name' = StatusName(FEASIBLE)
    /\ pc' = "SOLVED"
    /\ UNCHANGED <<input_dto, all_scheduling_groups, all_sessions_to_schedule,
                   active_slot_details_list, occupied_lecturer_intervals_data,
                   occupied_room_intervals_data, decoder_ran, result>>

\* solver.Solve(model) proves that the model has no solution
SolveInfeasible ==
    /\ pc = "SOLVING"
    /\ UNCHANGED <<model_created, inbox, handler_state, responses, spw_call,
                   prep_call, auth_call>>
    /\ ~ModelInvalid
    /\ Solutions = {}
    /\ solution_status_code' = INFEASIBLE
    /\ solution_status_name' = StatusName(INFEASIBLE)
    /\ pc' = "SOLVED"
    /\ UNCHANGED <<input_dto, all_scheduling_groups, all_sessions_to_schedule,
                   active_slot_details_list, occupied_lecturer_intervals_data,
                   occupied_room_intervals_data, solver_values, decoder_ran, result>>

\* solver.Solve(model) stops at max_time_in_seconds without solution or proof
SolveUnknown ==
    /\ pc = "SOLVING"
    /\ UNCHANGED <<model_created, inbox, handler_state, responses, spw_call,
                   prep_call, auth_call>>
    /\ ~ModelInvalid
    /\ solution_status_code' = UNKNOWN
    /\ solution_status_name' = StatusName(UNKNOWN)
    /\ pc' = "SOLVED"
    /\ UNCHANGED <<input_dto, all_scheduling_groups, all_sessions_to_schedule,
                   active_slot_details_list, occupied_lecturer_intervals_data,
                   occupied_room_intervals_data, solver_values, decoder_ran, result>>

\* solver.Solve(model) rejects the model
SolveModelInvalid ==
    /\ pc = "SOLVING"
    /\ UNCHANGED <<model_created, inbox, handler_state, responses, spw_call,
                   prep_call, auth_call>>
    /\ ModelInvalid
    /\ solution_status_code' = MODEL_INVALID
    /\ solution_status_name' = StatusName(MODEL_INVALID)
    /\ pc' = "SOLVED"
    /\ UNCHANGED <<input_dto, all_scheduling_groups, all_sessions_to_schedule,
                   active_slot_details_list, occupied_lecturer_intervals_data,
                   occupied_room_intervals_data, solver_values, decoder_ran, result>>

\* step 8 and the return: decode the solver's values when a solution was found,
\* then build the FinalScheduleResultDTO
ProcessSolution ==
    /\ pc = "SOLVED"
    /\ UNCHANGED <<model_created, inbox, handler_state, responses, spw_call,
                   prep_call, auth_call>>
    /\ decoder_ran' = solution_found(solution_status_code)
    /\ result' = FinalScheduleResultDTO(input_dto, solution_status_code,
                                         solution_status_name, solver_values)
    /\ pc' = "RETURNED"
    /\ UNCHANGED <<input_dto, all_scheduling_groups, all_sessions_to_schedule,
                   active_slot_details_list, occupied_lecturer_intervals_data,
                   occupied_room_intervals_data, solution_status_code,
                   solution_status_name, solver_values>>

Next ==
    \/ Build
    \/ SolveOptimal
    \/ SolveFeasible
    \/ SolveInfeasible
    \/ SolveUnknown
    \/ SolveModelInvalid
    \/ ProcessSolution

Spec == Init /\ [][Next]_vars

(* ------------------- the serving layer --------------------------------- *)
\* requests in flight at the same time
MaxRequests == 2

\* one week with a single slot and a single room
OneSlotRequest ==
    [BaseRequest EXCEPT
        !.semesterEndDate = strftime(6),
        !.timeSlots = <<5>>,
        !.daysOfWeek = <<"MONDAY">>,
        !.rooms = <<TwoRooms[2]>>]

\* the request bodies sent to the service: a course either lecturer can teach, a
\* group larger than the only room, a room of negative capacity, no room at all
ServingRequests ==
    {OneSlotRequest,
     [OneSlotRequest EXCEPT !.rooms = <<TwoRooms[1]>>,
                            !.coursesToSchedule = <<Course(31, 1, 2, <<21>>)>>],
     [OneSlotRequest EXCEPT !.rooms = <<[id |-> 11, roomNumber |-> "A1", capacity |-> -1]>>],
     [OneSlotRequest EXCEPT !.rooms = <<>>]}

\* the requests have arrived; no handler coroutine has been started
InitServing ==
    /\ inbox \in [1..MaxRequests -> ServingRequests]
    /\ handler_state = [r \in 1..MaxRequests |-> "PENDING"]
    /\ responses = [r \in 1..MaxRequests |-> [kind |-> "none"]]
    /\ input_dto = <<>>
    /\ pc = "IDLE"
    /\ all_scheduling_groups = <<>>
    /\ all_sessions_to_schedule = <<>>
    /\ active_slot_details_list = <<>>
    /\ occupied_lecturer_intervals_data = <<>>
    /\ occupied_room_intervals_data = <<>>
    /\ solution_status_code = UNKNOWN
    /\ solution_status_name = "NOT_SOLVED"
    /\ solver_values = <<>>
    /\ decoder_ran = FALSE
    /\ result = [kind |-> "none"]
    /\ model_created = FALSE
    /\ spw_call = NoCall
    /\ prep_call = NoCall
    /\ auth_call = NoCall

\* the event loop starts the handler of request r: result = await
\* service.calculate_with_cp(input). The loop runs one coroutine at a time and
\* switches only where the running one awaits; calculate_with_cp has no await
Accept(r) ==
    /\ handler_state[r] = "PENDING"
    /\ \A q \in 1..MaxRequests : handler_state[q] # "RUNNING"
    /\ handler_state' = [handler_state EXCEPT ![r] = "RUNNING"]
    /\ input_dto' = inbox[r]
    /\ pc' = "BUILDING"
    /\ UNCHANGED <<inbox, responses, all_scheduling_groups, all_sessions_to_schedule,
                   active_slot_details_list, occupied_lecturer_intervals_data,
                   occupied_room_intervals_data, solution_status_code,
                   solution_status_name, solver_values, decoder_ran, result,
                   model_created, spw_call,
                   prep_call, auth_call>>

\* calculate_with_cp returns or raises: the handler of request r ends and the event
\* loop is free again
Respond(r) ==
    /\ handler_state[r] = "RUNNING"
    /\ pc \in {"RETURNED", "RAISED"}
    /\ responses' = [responses EXCEPT ![r] = result]
    /\ handler_state' = [handler_state EXCEPT ![r] = "DONE"]
    /\ input_dto' = <<>>
    /\ pc' = "IDLE"
    /\ all_scheduling_groups' = <<>>
    /\ all_sessions_to_schedule' = <<>>
    /\ active_slot_details_list' = <<>>
    /\ occupied_lecturer_intervals_data' = <<>>
    /\ occupied_room_intervals_data' = <<>>
    /\ solution_status_code' = UNKNOWN
    /\ solution_status_name' = "NOT_SOLVED"
    /\ solver_values' = <<>>
    /\ decoder_ran' = FALSE
    /\ result' = [kind |-> "none"]
    /\ model_created' = FALSE
    /\ UNCHANGED <<inbox, spw_call,
                   prep_call, auth_call>>

NextServing ==
    \/ \E r \in 1..MaxRequests : Accept(r)
    \/ Build
    \/ SolveOptimal
    \/ SolveFeasible
    \/ SolveInfeasible
    \/ SolveUnknown
    \/ SolveModelInvalid
    \/ ProcessSolution
    \/ \E r \in 1..MaxRequests : Respond(r)

SpecServing == InitServing /\ [][NextServing]_vars

(* ------------------- _get_sessions_per_week, step by step -------------- *)
\* the arguments of the calls that are followed
MaxTotalSessions == 6
MaxWeeksAvailable == 4
MaxPerWeek == 4

\* a call of _get_sessions_per_week has been made; maxSessionsPerWeekAllowed is
\* validated gt=0 by CourseSchedulingInfoDTO, the other two arguments are not
\* restricted by the function itself
InitSessionsPerWeek ==
    /\ \E T \in 0..MaxTotalSessions, weeks \in 0..MaxWeeksAvailable, m \in 1..MaxPerWeek :
           spw_call = [pc |-> "ENTRY",
                       total_semester_sessions |-> T,
                       total_semester_weeks_available |-> weeks,
                       max_sessions_per_week_allowed |-> m,
                       current_sessions_per_week |-> 0,
                       returned |-> None]
    /\ prep_call = NoCall
    /\ auth_call = NoCall
    /\ inbox = <<>>
    /\ handler_state = <<>>
    /\ responses = <<>>
    /\ input_dto = <<>>
    /\ pc = "IDLE"
    /\ all_scheduling_groups = <<>>
    /\ all_sessions_to_schedule = <<>>
    /\ active_slot_details_list = <<>>
    /\ occupied_lecturer_intervals_data = <<>>
    /\ occupied_room_intervals_data = <<>>
    /\ solution_status_code = UNKNOWN
    /\ solution_status_name = "NOT_SOLVED"
    /\ solver_values = <<>>
    /\ decoder_ran = FALSE
    /\ result = [kind |-> "none"]
    /\ model_created = FALSE

\* the two guards before the loop, then current_sessions_per_week = 1
SpwEnter ==
    /\ spw_call.pc = "ENTRY"
    /\ spw_call' =
          IF spw_call.total_semester_sessions <= 0
          THEN [spw_call EXCEPT !.pc = "RETURNED", !.returned = <<0, 0>>]
          ELSE IF spw_call.total_semester_weeks_available <= 0
               THEN [spw_call EXCEPT !.pc = "RAISED"]
               ELSE [spw_call EXCEPT !.pc = "LOOP", !.current_sessions_per_week = 1]
    /\ UNCHANGED <<input_dto, pc, all_scheduling_groups, all_sessions_to_schedule,
                   active_slot_details_list, occupied_lecturer_intervals_data,
                   occupied_room_intervals_data, solution_status_code,
                   solution_status_name, solver_values, decoder_ran, result,
                   model_created, inbox, handler_state, responses,
                   prep_call, auth_call>>

\* the test of the while loop and one pass through its body; leaving the loop
\* without a return raises ValueError
SpwIterate ==
    /\ spw_call.pc = "LOOP"
    /\ spw_call' =
          IF spw_call.current_sessions_per_week <= spw_call.max_sessions_per_week_allowed
          THEN LET calculated_total_weeks_for_course ==
                       ceil_div(spw_call.total_semester_sessions,
                                spw_call.current_sessions_per_week)
               IN  IF calculated_total_weeks_for_course
                          <= spw_call.total_semester_weeks_available
                   THEN [spw_call EXCEPT
                            !.pc = "RETURNED",
                            !.returned = <<spw_call.current_sessions_per_week,
                                           calculated_total_weeks_for_course>>]
                   ELSE IF spw_call.current_sessions_per_week
                               = spw_call.max_sessions_per_week_allowed
                        THEN [spw_call EXCEPT !.pc = "RAISED"]
                        ELSE [spw_call EXCEPT
                                 !.current_sessions_per_week =
                                     spw_call.current_sessions_per_week + 1]
          ELSE [spw_call EXCEPT !.pc = "RAISED"]
    /\ UNCHANGED <<input_dto, pc, all_scheduling_groups, all_sessions_to_schedule,
                   active_slot_details_list, occupied_lecturer_intervals_data,
                   occupied_room_intervals_data, solution_status_code,
                   solution_status_name, solver_values, decoder_ran, result,
                   model_created, inbox, handler_state, responses,
                   prep_call, auth_call>>

NextSessionsPerWeek ==
    \/ SpwEnter
    \/ SpwIterate

\* a call that has started keeps executing
SpecSessionsPerWeek ==
    InitSessionsPerWeek /\ [][NextSessionsPerWeek]_vars /\ WF_vars(NextSessionsPerWeek)

(* ------------------- one course through the preprocessor -------------- *)
\* the registered students and the group size target of the courses that are followed
MaxRegistered == 8
MaxGroupTarget == 4

\* the body of the for cs_info_dto loop is entered for one course; the DTO validators
\* give totalSemesterSessions > 0, registeredStudents >= 0, groupSizeTarget > 0 and
\* maxSessionsPerWeekAllowed > 0
InitPreprocess ==
    /\ \E T \in 1..MaxTotalSessions, R \in 0..MaxRegistered, G \in 1..MaxGroupTarget, weeks \in 0..MaxWeeksAvailable, m \in 1..MaxPerWeek :
           prep_call = [pc |-> "ENTRY",
                        cs_info_dto |-> Course(31, T, R, <<21>>),
                        groupSizeTarget |-> G,
                        total_calendar_weeks |-> weeks,
                        maxSessionsPerWeekAllowed |-> m,
                        course_props |-> None,
                        num_groups_for_course |-> 0,
                        grp_idx |-> 0,
                        all_scheduling_groups |-> <<>>,
                        all_sessions_to_schedule |-> <<>>]
    /\ spw_call = NoCall
    /\ auth_call = NoCall
    /\ inbox = <<>>
    /\ handler_state = <<>>
    /\ responses = <<>>
    /\ input_dto = <<>>
    /\ pc = "IDLE"
    /\ all_scheduling_groups = <<>>
    /\ all_sessions_to_schedule = <<>>
    /\ active_slot_details_list = <<>>
    /\ occupied_lecturer_intervals_data = <<>>
    /\ occupied_room_intervals_data = <<>>
    /\ solution_status_code = UNKNOWN
    /\ solution_status_name = "NOT_SOLVED"
    /\ solver_values = <<>>
    /\ decoder_ran = FALSE
    /\ result = [kind |-> "none"]
    /\ model_created = FALSE

\* the fit check, the course properties, the skip of a course without students and
\* the number of groups
PrepEnter ==
    /\ prep_call.pc = "ENTRY"
    /\ LET spw == get_sessions_per_week(prep_call.cs_info_dto.totalSemesterSessions,
                                        prep_call.total_calendar_weeks,
                                        prep_call.maxSessionsPerWeekAllowed)
           course_props == CoursePropertiesInternal(prep_call.cs_info_dto,
                                                    spw.value[1], spw.value[2])
           m == num_groups_for_course(course_props.registeredStudents,
                                      prep_call.groupSizeTarget)
       IN  prep_call' =
             IF spw.raised THEN [prep_call EXCEPT !.pc = "RAISED"]
             ELSE IF \/ course_props.registeredStudents <= 0
                     \/ course_props.totalSemesterSessions <= 0
                     \/ course_props.totalCourseWeeks <= 0
                     \/ m = 0
                  THEN [prep_call EXCEPT !.pc = "DONE", !.course_props = course_props]
                  ELSE [prep_call EXCEPT !.pc = "GROUPS",
                                         !.course_props = course_props,
                                         !.num_groups_for_course = m,
                                         !.grp_idx = 0]
    /\ UNCHANGED <<input_dto, pc, all_scheduling_groups, all_sessions_to_schedule,
                   active_slot_details_list, occupied_lecturer_intervals_data,
                   occupied_room_intervals_data, solution_status_code,
                   solution_status_name, solver_values, decoder_ran, result,
                   model_created, inbox, handler_state, responses, spw_call, auth_call>>

\* one pass of the for grp_idx loop: the group and its sessions are appended
PrepGroup ==
    /\ prep_call.pc = "GROUPS"
    /\ prep_call.grp_idx < prep_call.num_groups_for_course
    /\ LET n == students_in_this_group(prep_call.course_props.registeredStudents,
                                       prep_call.num_groups_for_course,
                                       prep_call.grp_idx)
           g == Len(prep_call.all_scheduling_groups) + 1
           ss == emit_sessions(prep_call.course_props, 0, 1)
       IN  prep_call' =
             IF n = 0
             THEN [prep_call EXCEPT !.grp_idx = prep_call.grp_idx + 1]
             ELSE [prep_call EXCEPT
                      !.grp_idx = prep_call.grp_idx + 1,
                      !.all_scheduling_groups =
                          Append(prep_call.all_scheduling_groups,
                                 [courseId |-> prep_call.course_props.courseId,
                                  groupNumber |-> prep_call.grp_idx + 1,
                                  course_props |-> prep_call.course_props,
                                  actual_students_in_group |-> n]),
                      !.all_sessions_to_schedule =
                          prep_call.all_sessions_to_schedule \o
                          [j \in 1..Len(ss) |->
                              [group |-> g,
                               course_week_number |-> ss[j].course_week_number,
                               session_in_course_week_number |->
                                   ss[j].session_in_course_week_number,
                               overall_session_sequence_number |->
                                   ss[j].overall_session_sequence_number]]]
    /\ UNCHANGED <<input_dto, pc, all_scheduling_groups, all_sessions_to_schedule,
                   active_slot_details_list, occupied_lecturer_intervals_data,
                   occupied_room_intervals_data, solution_status_code,
                   solution_status_name, solver_values, decoder_ran, result,
                   model_created, inbox, handler_state, responses, spw_call, auth_call>>

\* range(num_groups_for_course) is exhausted
PrepLeave ==
    /\ prep_call.pc = "GROUPS"
    /\ prep_call.grp_idx >= prep_call.num_groups_for_course
    /\ prep_call' = [prep_call EXCEPT !.pc = "DONE"]
    /\ UNCHANGED <<input_dto, pc, all_scheduling_groups, all_sessions_to_schedule,
                   active_slot_details_list, occupied_lecturer_intervals_data,
                   occupied_room_intervals_data, solution_status_code,
                   solution_status_name, solver_values, decoder_ran, result,
                   model_created, inbox, handler_state, responses, spw_call, auth_call>>

NextPreprocess ==
    \/ PrepEnter
    \/ PrepGroup
    \/ PrepLeave

SpecPreprocess == InitPreprocess /\ [][NextPreprocess]_vars

(* ------------------- AuthMiddleware ------------------------------------ *)
\* strings are sequences of characters here, so that startswith, split and lower do
\* what they do in Python
\* str.lower()
lower(str) ==
    LET UpperCase ==
            <<"A", "B", "C", "D", "E", "F", "G", "H", "I", "J", "K", "L", "M",
              "N", "O", "P", "Q", "R", "S", "T", "U", "V", "W", "X", "Y", "Z">>
        LowerCase ==
            <<"a", "b", "c", "d", "e", "f", "g", "h", "i", "j", "k", "l", "m",
              "n", "o", "p", "q", "r", "s", "t", "u", "v", "w", "x", "y", "z">>
    IN  [i \in 1..Len(str) |->
            IF \E k \in 1..Len(UpperCase) : UpperCase[k] = str[i]
            THEN LowerCase[CHOOSE k \in 1..Len(UpperCase) : UpperCase[k] = str[i]]
            ELSE str[i]]

\* the request path is a prefix of the public path
startswith_reversed(str, prefix) ==
    /\ Len(str) <= Len(prefix)
    /\ SubSeq(prefix, 1, Len(str)) = str

\* str.startswith(prefix)
startswith(str, prefix) ==
    /\ Len(prefix) <= Len(str)
    /\ SubSeq(str, 1, Len(prefix)) = prefix

\* str.split(" ", 1) of a string that contains a space: <<before, after>> the first one
split_once(str) ==
    LET i == Min({k \in 1..Len(str) : str[k] = " "})
    IN  <<SubSeq(str, 1, i - 1), SubSeq(str, i + 1, Len(str))>>

PUBLIC_PATHS ==
    <<<<"/", "d", "o", "c", "s">>,
      <<"/", "r", "e", "d", "o", "c">>,
      <<"/", "o", "p", "e", "n", "a", "p", "i", ".", "j", "s", "o", "n">>,
      <<"/", "t", "e", "s", "t", "i", "n", "g", "-", "d", "b">>,
      <<"/", "s", "c", "h", "e", "d", "u", "l", "e", "s", "/", "c", "a", "l", "c", "u", "l", "a", "t", "i", "n", "g">>>>

\* the tokens jwt.decode accepts with the secret key, and those it finds expired
ValidTokens == {<<"g">>}
ExpiredTokens == {<<"e">>}

\* JWTHandler.verify_jwt: the payload, or HTTPException(401) for an expired, invalid or
\* undecodable token
verify_jwt(token) ==
    IF token \in ValidTokens THEN [raised |-> FALSE, payload |-> [id |-> 7]]
    ELSE IF token \in ExpiredTokens
         THEN [raised |-> TRUE, detail |-> "Token has expired"]
         ELSE [raised |-> TRUE, detail |-> "Invalid token"]

RequestMethods == {"GET", "POST", "OPTIONS"}

RequestPaths ==
    {<<"/", "d", "o", "c", "s">>,
     <<"/", "d", "o", "c", "s", "x">>,
     <<"/", "d", "o", "c">>,
     <<"/">>,
     <<"/", "s", "c", "h", "e", "d", "u", "l", "e", "s">>,
     <<"/", "s", "c", "h", "e", "d", "u", "l", "e", "s", "/", "c", "a", "l", "c", "u", "l", "a", "t", "i", "n", "g">>,
     <<"/", "u", "s", "e", "r", "s">>}

\* request.headers.get("Authorization"): None or the header value
AuthorizationHeaders ==
    {None,
     <<<<>>>>,
     <<<<"B", "e", "a", "r", "e", "r">>>>,
     <<<<"B", "e", "a", "r", "e", "r", " ", "g">>>>,
     <<<<"b", "e", "a", "r", "e", "r", " ", "g">>>>,
     <<<<"B", "E", "A", "R", "E", "R", " ", "g">>>>,
     <<<<"B", "a", "s", "i", "c", " ", "g">>>>,
     <<<<"B", "e", "a", "r", "e", "r", " ", "e">>>>,
     <<<<"B", "e", "a", "r", "e", "r", " ", "x">>>>,
     <<<<"B", "e", "a", "r", "e", "r", " ", " ", "g">>>>,
     <<<<" ", "g">>>>}

\* a request has reached the middleware
InitAuth ==
    /\ \E method \in RequestMethods, path \in RequestPaths, auth_header \in AuthorizationHeaders :
           auth_call = [pc |-> "DISPATCH", method |-> method, path |-> path,
                        auth_header |-> auth_header, scheme |-> <<>>, token |-> <<>>,
                        user_id |-> None, status_code |-> 0, call_next |-> FALSE]
    /\ spw_call = NoCall
    /\ prep_call = NoCall
    /\ inbox = <<>>
    /\ handler_state = <<>>
    /\ responses = <<>>
    /\ input_dto = <<>>
    /\ pc = "IDLE"
    /\ all_scheduling_groups = <<>>
    /\ all_sessions_to_schedule = <<>>
    /\ active_slot_details_list = <<>>
    /\ occupied_lecturer_intervals_data = <<>>
    /\ occupied_room_intervals_data = <<>>
    /\ solution_status_code = UNKNOWN
    /\ solution_status_name = "NOT_SOLVED"
    /\ solver_values = <<>>
    /\ decoder_ran = FALSE
    /\ result = [kind |-> "none"]
    /\ model_created = FALSE

\* an OPTIONS request or a public path goes to the downstream handler at once
AuthPublic ==
    /\ auth_call.pc = "DISPATCH"
    /\ auth_call' =
          IF \/ auth_call.method = "OPTIONS"
             \/ \E i \in 1..Len(PUBLIC_PATHS) : startswith(auth_call.path, PUBLIC_PATHS[i])
          THEN [auth_call EXCEPT !.pc = "RESPONDED", !.call_next = TRUE]
          ELSE [auth_call EXCEPT !.pc = "HEADER"]
    /\ UNCHANGED <<input_dto, pc, all_scheduling_groups, all_sessions_to_schedule,
                   active_slot_details_list, occupied_lecturer_intervals_data,
                   occupied_room_intervals_data, solution_status_code,
                   solution_status_name, solver_values, decoder_ran, result,
                   model_created, inbox, handler_state, responses, spw_call, prep_call>>

\* the Authorization header must be present and contain a space; it is split at
\* the first one
AuthHeader ==
    /\ auth_call.pc = "HEADER"
    /\ auth_call' =
          IF \/ auth_call.auth_header = None
             \/ auth_call.auth_header[1] = <<>>
             \/ " " \notin Range(auth_call.auth_header[1])
          THEN [auth_call EXCEPT !.pc = "RESPONDED", !.status_code = 401]
          ELSE [auth_call EXCEPT !.pc = "SCHEME",
                                 !.scheme = split_once(auth_call.auth_header[1])[1],
                                 !.token = split_once(auth_call.auth_header[1])[2]]
    /\ UNCHANGED <<input_dto, pc, all_scheduling_groups, all_sessions_to_schedule,
                   active_slot_details_list, occupied_lecturer_intervals_data,
                   occupied_room_intervals_data, solution_status_code,
                   solution_status_name, solver_values, decoder_ran, result,
                   model_created, inbox, handler_state, responses, spw_call, prep_call>>

\* scheme.lower() != "bearer"
AuthScheme ==
    /\ auth_call.pc = "SCHEME"
    /\ auth_call' =
          IF lower(auth_call.scheme) # <<"b", "e", "a", "r", "e", "r">>
          THEN [auth_call EXCEPT !.pc = "RESPONDED", !.status_code = 401]
          ELSE [auth_call EXCEPT !.pc = "VERIFY"]
    /\ UNCHANGED <<input_dto, pc, all_scheduling_groups, all_sessions_to_schedule,
                   active_slot_details_list, occupied_lecturer_intervals_data,
                   occupied_room_intervals_data, solution_status_code,
                   solution_status_name, solver_values, decoder_ran, result,
                   model_created, inbox, handler_state, responses, spw_call, prep_call>>

\* the try block: verify_jwt and request.state.user_id; any exception gives 401
AuthVerify ==
    /\ auth_call.pc = "VERIFY"
    /\ auth_call' =
          IF verify_jwt(auth_call.token).raised
          THEN [auth_call EXCEPT !.pc = "RESPONDED", !.status_code = 401]
          ELSE [auth_call EXCEPT !.pc = "VERIFIED",
                                 !.user_id = <<verify_jwt(auth_call.token).payload.id>>]
    /\ UNCHANGED <<input_dto, pc, all_scheduling_groups, all_sessions_to_schedule,
                   active_slot_details_list, occupied_lecturer_intervals_data,
                   occupied_room_intervals_data, solution_status_code,
                   solution_status_name, solver_values, decoder_ran, result,
                   model_created, inbox, handler_state, responses, spw_call, prep_call>>

\* return await call_next(request)
AuthCallNext ==
    /\ auth_call.pc = "VERIFIED"
    /\ auth_call' = [auth_call EXCEPT !.pc = "RESPONDED", !.call_next = TRUE]
    /\ UNCHANGED <<input_dto, pc, all_scheduling_groups, all_sessions_to_schedule,
                   active_slot_details_list, occupied_lecturer_intervals_data,
                   occupied_room_intervals_data, solution_status_code,
                   solution_status_name, solver_values, decoder_ran, result,
                   model_created, inbox, handler_state, responses, spw_call, prep_call>>

NextAuth ==
    \/ AuthPublic
    \/ AuthHeader
    \/ AuthScheme
    \/ AuthVerify
    \/ AuthCallNext

SpecAuth == InitAuth /\ [][NextAuth]_vars

(* ------------------- vocabulary of the properties ---------------------- *)
\* a result was returned with status OPTIMAL or FEASIBLE
ScheduleReturned ==
    pc = "RETURNED" /\ result.solverStatus \in {"OPTIMAL", "FEASIBLE"}

SessionIds == 1..Len(all_sessions_to_schedule)

SessionGroup(j) == all_sessions_to_schedule[j].group

\* the (week, day, shift) of the global slot the solver gave session j
SessionDetails(j) ==
    global_slot_to_details(solver_values[SessionGroup(j)].global_slot[j])

SessionSlotValue(j) == solver_values[SessionGroup(j)].global_slot[j]

SessionLecturerIdx(j) == solver_values[SessionGroup(j)].lecturer

SessionLecturerId(j) == input_dto.lecturers[SessionLecturerIdx(j) + 1]

SessionRoomIdx(j) ==
    solver_values[SessionGroup(j)].weekly[
        all_sessions_to_schedule[j].session_in_course_week_number].room

SessionRoomId(j) == input_dto.rooms[SessionRoomIdx(j) + 1].id

SessionTimeSlotId(j) == input_dto.timeSlots[SessionDetails(j)[3] + 1]

\* the calendar date of session j: the day of semester week SessionDetails(j)[1]
\* whose name is the daysOfWeek entry at SessionDetails(j)[2]
SessionDate(j) ==
    LET start == fromisoformat(input_dto.semesterStartDate)
        first == start + 7 * SessionDetails(j)[1]
    IN  CHOOSE d \in first..(first + 6) :
            day_name_map_from_iso[isoweekday(d)]
                = input_dto.daysOfWeek[SessionDetails(j)[2] + 1]

\* the groups (positions in all_scheduling_groups) of a returned course, in order
ReturnedGroupsOf(course_id) == groups_by_course(course_id, 1)

\* C1: in every result with status OPTIMAL or FEASIBLE, two distinct sessions whose
\* groups have the same lecturer never occupy the same global slot: the
\* (lecturer, date, timeSlot) tuple is unique across all scheduled sessions
C1_LecturerNoDoubleBooking ==
    ScheduleReturned =>
        \A j1, j2 \in SessionIds :
            (j1 # j2 /\ SessionLecturerId(j1) = SessionLecturerId(j2)) =>
                /\ SessionSlotValue(j1) # SessionSlotValue(j2)
                /\ <<SessionDate(j1), SessionTimeSlotId(j1)>>
                       # <<SessionDate(j2), SessionTimeSlotId(j2)>>

\* two sessions of different groups share a lecturer in a returned schedule
C1_Witness ==
    /\ ScheduleReturned
    /\ \E j1, j2 \in SessionIds :
          /\ SessionGroup(j1) # SessionGroup(j2)
          /\ SessionLecturerId(j1) = SessionLecturerId(j2)

\* C2: in every result with status OPTIMAL or FEASIBLE, two distinct sessions that
\* use the same room never occupy the same global slot: the (room, date, timeSlot)
\* tuple is unique across all scheduled sessions of all groups and courses
C2_RoomNoDoubleBooking ==
    ScheduleReturned =>
        \A j1, j2 \in SessionIds :
            (j1 # j2 /\ SessionRoomId(j1) = SessionRoomId(j2)) =>
                /\ SessionSlotValue(j1) # SessionSlotValue(j2)
                /\ <<SessionDate(j1), SessionTimeSlotId(j1)>>
                       # <<SessionDate(j2), SessionTimeSlotId(j2)>>

\* two sessions of different groups with different lecturers share a room in a
\* returned schedule
C2_Witness ==
    /\ ScheduleReturned
    /\ \E j1, j2 \in SessionIds :
          /\ SessionGroup(j1) # SessionGroup(j2)
          /\ SessionLecturerId(j1) # SessionLecturerId(j2)
          /\ SessionRoomId(j1) = SessionRoomId(j2)

\* C3: external occupancy is respected: no scheduled session of a group assigned
\* lecturer l is at slot s for a pair (l, s) of the compiled lecturer occupancy, and
\* no session using room r is at slot s for a pair (r, s) of the room occupancy
C3_OccupancyRespected ==
    ScheduleReturned =>
        \A j \in SessionIds :
            /\ <<SessionLecturerIdx(j), SessionSlotValue(j)>>
                   \notin Range(occupied_lecturer_intervals_data)
            /\ <<SessionRoomIdx(j), SessionSlotValue(j)>>
                   \notin Range(occupied_room_intervals_data)

\* a schedule is returned although the lecturer or the room of one of its sessions
\* is occupied at another slot of the calendar
C3_Witness ==
    /\ ScheduleReturned
    /\ \E j \in SessionIds :
          \/ \E o \in Range(occupied_lecturer_intervals_data) :
                o[1] = SessionLecturerIdx(j)
          \/ \E o \in Range(occupied_room_intervals_data) : o[1] = SessionRoomIdx(j)

\* the capacity of the room with the given id in the request
CapacityOfRoomId(room_id) ==
    input_dto.rooms[room_id_to_idx(input_dto)[room_id] + 1].capacity

\* C4: for every group of a returned schedule and every weekly (day, shift, room)
\* tuple of it, the capacity of the chosen room is at least the actual student
\* count of the group (from group splitting, not groupSizeTarget)
C4_RoomCapacity ==
    ScheduleReturned =>
        \A c \in 1..Len(result.scheduledCourses) :
            LET course == result.scheduledCourses[c]
                gs == ReturnedGroupsOf(course.courseId)
            IN  \A n \in 1..Len(course.scheduledClassGroups) :
                    \A i \in 1..Len(course.scheduledClassGroups[n].weeklyScheduleDetails) :
                        CapacityOfRoomId(
                            course.scheduledClassGroups[n].weeklyScheduleDetails[i].roomId)
                          >= all_scheduling_groups[gs[n]].actual_students_in_group

\* a returned group has more students than the smallest room holds and fewer than
\* groupSizeTarget
C4_Witness ==
    /\ ScheduleReturned
    /\ \E g \in 1..Len(all_scheduling_groups) :
          /\ all_scheduling_groups[g].actual_students_in_group
                 > Min({input_dto.rooms[r].capacity : r \in 1..Len(input_dto.rooms)})
          /\ all_scheduling_groups[g].actual_students_in_group < input_dto.groupSizeTarget

\* the potential lecturers of a course that the request's lecturer list knows
EligibleLecturerIds(course_id) ==
    Range(course_properties_map(input_dto, course_id).potentialLecturerIds)
        \cap Range(input_dto.lecturers)

\* C5: for every group of a returned schedule the assigned lecturer is one of the
\* course's potentialLecturerIds and of the request's lecturers, one lecturer for
\* all sessions of the group; with exactly one eligible lecturer every group of
\* the course gets that lecturer
C5_LecturerEligible ==
    ScheduleReturned =>
        \A c \in 1..Len(result.scheduledCourses) :
            LET course == result.scheduledCourses[c]
                gs == ReturnedGroupsOf(course.courseId)
            IN  \A n \in 1..Len(course.scheduledClassGroups) :
                    /\ course.scheduledClassGroups[n].lecturerId
                           \in EligibleLecturerIds(course.courseId)
                    /\ \A j \in SessionsOfGroup(gs[n]) :
                           SessionLecturerId(j) = course.scheduledClassGroups[n].lecturerId
                    /\ Cardinality(EligibleLecturerIds(course.courseId)) = 1 =>
                           EligibleLecturerIds(course.courseId)
                               = {course.scheduledClassGroups[n].lecturerId}

\* a returned course of two groups has exactly one eligible lecturer while the
\* request lists another lecturer
C5_Witness ==
    /\ ScheduleReturned
    /\ \E c \in 1..Len(result.scheduledCourses) :
          /\ Len(result.scheduledCourses[c].scheduledClassGroups) > 1
          /\ Cardinality(EligibleLecturerIds(result.scheduledCourses[c].courseId)) = 1
          /\ Len(input_dto.lecturers) > 1

\* C6: every scheduled session has one global slot, whose calendar date lies in
\* [semesterStartDate, semesterEndDate], is not in exceptionDates and has a day
\* name of daysOfWeek, whatever the weekday the semester starts on
C6_SessionDatesActive ==
    ScheduleReturned =>
        \A j \in SessionIds :
            /\ SessionSlotValue(j) \in 0..(num_total_active_slots - 1)
            /\ SessionDate(j) >= fromisoformat(input_dto.semesterStartDate)
            /\ SessionDate(j) <= fromisoformat(input_dto.semesterEndDate)
            /\ strftime(SessionDate(j)) \notin Range(input_dto.exceptionDates)
            /\ day_name_map_from_iso[isoweekday(SessionDate(j))]
                   \in Range(input_dto.daysOfWeek)

\* a schedule is returned for a semester that starts neither on a Monday nor on
\* the first allowed day, and that has a holiday on an allowed day of the semester
C6_Witness ==
    /\ ScheduleReturned
    /\ weekday(fromisoformat(input_dto.semesterStartDate)) # 0
    /\ day_name_map_from_iso[isoweekday(fromisoformat(input_dto.semesterStartDate))]
           # input_dto.daysOfWeek[1]
    /\ \E h \in Range(input_dto.exceptionDates) :
          /\ fromisoformat(h) >= fromisoformat(input_dto.semesterStartDate)
          /\ fromisoformat(h) <= fromisoformat(input_dto.semesterEndDate)
          /\ day_name_map_from_iso[isoweekday(fromisoformat(h))]
                 \in Range(input_dto.daysOfWeek)

\* the ClassGroupScheduledDTO returned for group g (position in all_scheduling_groups)
ReturnedGroup(g) ==
    LET cid == all_scheduling_groups[g].course_props.courseId
        c == CHOOSE x \in 1..Len(result.scheduledCourses) :
                 result.scheduledCourses[x].courseId = cid
        n == CHOOSE x \in 1..Len(ReturnedGroupsOf(cid)) : ReturnedGroupsOf(cid)[x] = g
    IN  result.scheduledCourses[c].scheduledClassGroups[n]

GroupIds == 1..Len(all_scheduling_groups)

\* the semester week index of the date of session j
SessionCalendarWeek(j) ==
    (SessionDate(j) - fromisoformat(input_dto.semesterStartDate)) \div 7

\* C7: a group meets on a fixed weekly pattern: all sessions of the group with the
\* same intra-week index have, in every course week, the day, the shift and the
\* room of the group's weekly tuple of that index; for k > 1 the k weekly
\* (day, shift) tuples of a group are pairwise distinct
C7_FixedWeeklyPattern ==
    ScheduleReturned =>
        \A g \in GroupIds :
            LET details == ReturnedGroup(g).weeklyScheduleDetails
            IN  /\ Len(details) = ReturnedGroup(g).sessionsPerWeekForGroup
                /\ \A j \in SessionsOfGroup(g) :
                      LET d == details[all_sessions_to_schedule[j].session_in_course_week_number]
                      IN  /\ day_name_map_from_iso[isoweekday(SessionDate(j))] = d.dayOfWeek
                          /\ SessionTimeSlotId(j) = d.timeSlotId
                          /\ SessionRoomId(j) = d.roomId
                /\ \A i1, i2 \in 1..Len(details) :
                      i1 # i2 => <<details[i1].dayOfWeek, details[i1].timeSlotId>>
                                 # <<details[i2].dayOfWeek, details[i2].timeSlotId>>

\* a returned group meets twice a week over more than one week
C7_Witness ==
    /\ ScheduleReturned
    /\ \E g \in GroupIds :
          /\ ReturnedGroup(g).sessionsPerWeekForGroup > 1
          /\ ReturnedGroup(g).totalTeachingWeeksForGroup > 1

\* C8: for every group with start week sw, 0 <= sw <= totalCalendarWeeks - W, and
\* every session of course week w falls in calendar week sw + w - 1: the sessions
\* span exactly the W = ceil(T / k) consecutive calendar weeks sw .. sw + W - 1,
\* all inside the semester
C8_ConsecutiveWeeks ==
    ScheduleReturned =>
        \A g \in GroupIds :
            LET sw == solver_values[g].start_week
                W == ReturnedGroup(g).totalTeachingWeeksForGroup
                T == all_scheduling_groups[g].course_props.totalSemesterSessions
            IN  /\ W = ceil_div(T, ReturnedGroup(g).sessionsPerWeekForGroup)
                /\ 0 <= sw
                /\ sw <= total_calendar_weeks(input_dto) - W
                /\ \A j \in SessionsOfGroup(g) :
                      SessionCalendarWeek(j)
                          = sw + all_sessions_to_schedule[j].course_week_number - 1
                /\ {SessionCalendarWeek(j) : j \in SessionsOfGroup(g)} = sw..(sw + W - 1)

\* a returned group runs over more than one week and does not start in the first
\* calendar week
C8_Witness ==
    /\ ScheduleReturned
    /\ \E g \in GroupIds :
          /\ solver_values[g].start_week > 0
          /\ ReturnedGroup(g).totalTeachingWeeksForGroup > 1

\* C9: the driver goes BUILDING -> SOLVING -> terminal status; the decoder runs only
\* for OPTIMAL or FEASIBLE; for every other terminal status the call returns a
\* result with an empty scheduledCourses and a non-empty solverMessage
C9_DriverStates ==
    [][/\ pc = "BUILDING" => pc' \in {"SOLVING", "RAISED"}
       /\ pc = "SOLVING" =>
             /\ pc' = "SOLVED"
             /\ solution_status_name'
                    \in {"OPTIMAL", "FEASIBLE", "INFEASIBLE", "UNKNOWN", "MODEL_INVALID"}
       /\ pc = "SOLVED" =>
             /\ pc' = "RETURNED"
             /\ result'.kind = "FinalScheduleResultDTO"
             /\ result'.solverStatus = solution_status_name
             /\ decoder_ran' <=> solution_status_name \in {"OPTIMAL", "FEASIBLE"}
             /\ solution_status_name \notin {"OPTIMAL", "FEASIBLE"} =>
                   /\ result'.scheduledCourses = <<>>
                   /\ result'.solverMessage # ""
       /\ pc \in {"RETURNED", "RAISED"} => pc' = pc]_vars

\* a result is returned for a model the solver found infeasible
C9_Witness ==
    /\ pc = "RETURNED"
    /\ result.solverStatus = "INFEASIBLE"
    /\ ~decoder_ran

HasStudents(course) == course.registeredStudents # 0

\* the request without its courses that have no registered student
WithoutEmptyCourses(dto) ==
    [dto EXCEPT !.coursesToSchedule = SelectSeq(dto.coursesToSchedule, HasStudents)]

\* C11 as stated: a course with registeredStudents = 0 is dropped and never makes
\* the request fail, whatever its totalSemesterSessions: the call raises, or goes on
\* to the solver with the same groups, exactly as for the request without the course
C11_Original ==
    LET absent == WithoutEmptyCourses(input_dto)
        pre == preprocess_courses(absent.coursesToSchedule, 1, total_calendar_weeks(absent),
                                  absent.maxSessionsPerWeekAllowed, absent.groupSizeTarget)
    IN  /\ pc = "RAISED" => result = HTTPException(BuildFailure(absent))
        /\ pc = "SOLVING" => /\ BuildFailure(absent) = 0
                             /\ all_scheduling_groups = pre.groups

\* steps 1 and 2 complete and leave all_sessions_to_schedule empty
NoSessionsToSchedule(dto) ==
    /\ Len(dto.rooms) > 0
    /\ Len(dto.timeSlots) > 0
    /\ Len(dto.daysOfWeek) > 0
    /\ LET pre == preprocess_courses(dto.coursesToSchedule, 1, total_calendar_weeks(dto),
                                     dto.maxSessionsPerWeekAllowed, dto.groupSizeTarget)
       IN  ~pre.raised /\ sessions_of_groups(pre.groups, 1) = <<>>

\* C12 as stated: when preprocessing leaves no session to schedule, the call returns
\* a structured result with an empty scheduledCourses, not an error, and the solver
\* is never invoked
C12_Original ==
    (pc # "BUILDING" /\ NoSessionsToSchedule(input_dto)) =>
        /\ pc = "RETURNED"
        /\ result.kind = "FinalScheduleResultDTO"
        /\ result.scheduledCourses = <<>>
        /\ solution_status_name = "NOT_SOLVED"

\* what the validation failures of a request are about
ValidationFailures ==
    {"rooms", "timeSlots", "daysOfWeek", "course does not fit", "potentialLecturerIds",
     "active slots"}

SessionsAssignedTo(lecturer_id) ==
    SumSeq([g \in GroupIds |->
               IF ReturnedGroup(g).lecturerId = lecturer_id
               THEN Cardinality(SessionsOfGroup(g)) ELSE 0])

\* C14: on OPTIMAL or FEASIBLE the result lists, for every input lecturer,
\* sessionsAssigned equal to the sum of the session counts of the groups assigned to
\* that lecturer in the returned schedule (0 without group), and loadDifference is
\* the maximum minus the minimum of these values
C14_LecturerLoads ==
    ScheduleReturned =>
        /\ Len(result.lecturerLoad) = Len(input_dto.lecturers)
        /\ \A n \in 1..Len(input_dto.lecturers) :
              /\ result.lecturerLoad[n].lecturerId = input_dto.lecturers[n]
              /\ result.lecturerLoad[n].sessionsAssigned
                     = SessionsAssignedTo(input_dto.lecturers[n])
        /\ LET loads == {SessionsAssignedTo(input_dto.lecturers[n]) :
                            n \in 1..Len(input_dto.lecturers)}
           IN  result.loadDifference = <<Max(loads) - Min(loads)>>

\* a returned schedule where one lecturer has a group of several sessions and
\* another lecturer has no group
C14_Witness ==
    /\ ScheduleReturned
    /\ \E n, m \in 1..Len(result.lecturerLoad) :
          /\ result.lecturerLoad[n].sessionsAssigned > 1
          /\ result.lecturerLoad[m].sessionsAssigned = 0
    /\ \E g \in GroupIds : Cardinality(SessionsOfGroup(g)) > 1

\* the dates of the sessions of group g
SessionDatesOfGroup(g) == {SessionDate(j) : j \in SessionsOfGroup(g)}

\* C15 as stated: for every returned group, groupStartDate is the date of the group's
\* earliest scheduled session and groupEndDate the date of its latest scheduled
\* session, so that both lie in [semesterStartDate, semesterEndDate]
C15_Original ==
    ScheduleReturned =>
        \A g \in GroupIds :
            /\ ReturnedGroup(g).groupStartDate = strftime(Min(SessionDatesOfGroup(g)))
            /\ ReturnedGroup(g).groupEndDate = strftime(Max(SessionDatesOfGroup(g)))
            /\ fromisoformat(input_dto.semesterStartDate)
                   <= fromisoformat(ReturnedGroup(g).groupStartDate)
            /\ fromisoformat(ReturnedGroup(g).groupEndDate)
                   <= fromisoformat(input_dto.semesterEndDate)

\* the (day index, shift index) of a returned WeeklyScheduleDetailDTO
WeeklySlotOf(detail) ==
    <<day_name_to_idx(input_dto)[detail.dayOfWeek],
      timeslot_id_to_idx(input_dto)[detail.timeSlotId]>>

ReturnedObjective ==
    result.loadDifference[1]
    + SumSeq([g \in GroupIds |->
                 (fromisoformat(ReturnedGroup(g).groupStartDate)
                      - fromisoformat(input_dto.semesterStartDate)) \div 7])

\* two single-group courses with the same number of sessions, both teachable by the
\* two lecturers of the request, and no occupied slot
TwoEqualCourses ==
    /\ Len(input_dto.coursesToSchedule) = 2
    /\ Len(all_scheduling_groups) = 2
    /\ all_scheduling_groups[1].courseId # all_scheduling_groups[2].courseId
    /\ input_dto.coursesToSchedule[1].totalSemesterSessions
           = input_dto.coursesToSchedule[2].totalSemesterSessions
    /\ Len(input_dto.lecturers) = 2
    /\ \A c \in 1..2 : Range(input_dto.coursesToSchedule[c].potentialLecturerIds)
                           = Range(input_dto.lecturers)
    /\ input_dto.occupiedSlots = <<>>

C18_Original ==
    \A r1, r2 \in 1..MaxRequests :
        (/\ handler_state[r1] = "DONE"
         /\ handler_state[r2] = "DONE"
         /\ inbox[r1] = inbox[r2]) => responses[r1] = responses[r2]

\* C19 as stated: while one request is in the SOLVING state the serving layer is
\* responsive: a request that is waiting can be accepted before the solve returns
C19_Original ==
    \A r \in 1..MaxRequests :
        (pc = "SOLVING" /\ handler_state[r] = "PENDING") => ENABLED Accept(r)

\* C20: for T > 0 and weeks available > 0, _get_sessions_per_week returns the
\* smallest k in 1..maxSessionsPerWeekAllowed whose course length W = ceil(T/k) is at
\* most the weeks available, together with that W; it raises exactly when no such k
\* exists; the stepwise loop agrees with the function the driver uses; and every call
\* ends
C20_SmallestSessionsPerWeek ==
    /\ [](LET T == spw_call.total_semester_sessions
              weeks == spw_call.total_semester_weeks_available
              m == spw_call.max_sessions_per_week_allowed
          IN  /\ (spw_call.pc = "RETURNED" /\ T > 0 /\ weeks > 0) =>
                     LET k == spw_call.returned[1]
                         W == spw_call.returned[2]
                     IN  /\ k \in 1..m
                         /\ W * k >= T
                         /\ (W - 1) * k < T
                         /\ W <= weeks
                         /\ \A j \in 1..(k - 1) : weeks * j < T
              /\ (spw_call.pc = "RAISED" /\ T > 0 /\ weeks > 0) =>
                     \A j \in 1..m : weeks * j < T
              /\ spw_call.pc = "LOOP" =>
                     spw_call.current_sessions_per_week \in 1..m
              /\ spw_call.pc \in {"RETURNED", "RAISED"} =>
                     get_sessions_per_week(T, weeks, m)
                         = [raised |-> spw_call.pc = "RAISED",
                            value |-> IF spw_call.pc = "RAISED"
                                      THEN <<0, 0>> ELSE spw_call.returned])
    /\ <>(spw_call.pc \in {"RETURNED", "RAISED"})

\* a call returns after the loop has raised the number of sessions per week, and a
\* larger number was still allowed
C20_Witness ==
    /\ spw_call.pc = "RETURNED"
    /\ spw_call.total_semester_sessions > 0
    /\ spw_call.returned[1] > 1
    /\ spw_call.returned[1] < spw_call.max_sessions_per_week_allowed
    /\ spw_call.returned[2] < spw_call.total_semester_weeks_available

\* C21: a course with R > 0 registered students and group size target G that passes
\* the preprocessor gets exactly m = ceil(R/G) groups, numbered 1..m; the first
\* (R mod m) groups have floor(R/m) + 1 students and the others floor(R/m); the sizes
\* sum to R; the driver's preprocessing of the course yields the same groups
C21_GroupSplit ==
    (prep_call.pc = "DONE" /\ prep_call.cs_info_dto.registeredStudents > 0) =>
        LET R == prep_call.cs_info_dto.registeredStudents
            G == prep_call.groupSizeTarget
            groups == prep_call.all_scheduling_groups
            m == Len(groups)
        IN  /\ m * G >= R
            /\ (m - 1) * G < R
            /\ \A i \in 1..m :
                  /\ groups[i].groupNumber = i
                  /\ groups[i].actual_students_in_group
                         = (R \div m) + (IF i <= R % m THEN 1 ELSE 0)
            /\ SumSeq([i \in 1..m |-> groups[i].actual_students_in_group]) = R
            /\ preprocess_courses(<<prep_call.cs_info_dto>>, 1,
                                  prep_call.total_calendar_weeks,
                                  prep_call.maxSessionsPerWeekAllowed, G)
                   = [raised |-> FALSE, groups |-> groups]

\* a course was split in at least three groups of two different sizes
C21_Witness ==
    /\ prep_call.pc = "DONE"
    /\ Len(prep_call.all_scheduling_groups) >= 3
    /\ prep_call.all_scheduling_groups[1].actual_students_in_group
           > prep_call.all_scheduling_groups[3].actual_students_in_group

\* C28: every group the preprocessor creates has between 1 and groupSizeTarget
\* students; the sizes of two groups of the same course differ by at most 1 and do not
\* increase with the group number
C28_GroupSizes ==
    LET groups == prep_call.all_scheduling_groups
    IN  \A i \in 1..Len(groups) :
           /\ groups[i].actual_students_in_group \in 1..prep_call.groupSizeTarget
           /\ \A j \in i..Len(groups) :
                 /\ groups[j].groupNumber >= groups[i].groupNumber
                 /\ groups[i].actual_students_in_group - groups[j].actual_students_in_group
                        \in {0, 1}

\* a course was split in groups of the target size and smaller ones
C28_Witness ==
    /\ prep_call.pc = "DONE"
    /\ Len(prep_call.all_scheduling_groups) >= 2
    /\ prep_call.all_scheduling_groups[1].actual_students_in_group
           = prep_call.groupSizeTarget
    /\ prep_call.all_scheduling_groups[Len(prep_call.all_scheduling_groups)]
           .actual_students_in_group < prep_call.groupSizeTarget

\* C22: every group of a course with T sessions and k sessions per week gets exactly
\* T sessions, with overall sequence numbers 1..T in order; their course-week numbers
\* are exactly 1..W; every course week before the last holds k sessions and the last
\* holds T - k*(W-1) >= 1; totalOriginalSessionsToSchedule is the sum of T over the
\* groups
C22_SessionEmission ==
    pc \in {"SOLVING", "SOLVED", "RETURNED"} =>
        /\ \A g \in GroupIds :
              LET T == all_scheduling_groups[g].course_props.totalSemesterSessions
                  k == all_scheduling_groups[g].course_props.sessionsPerWeek
                  W == all_scheduling_groups[g].course_props.totalCourseWeeks
                  ss == SelectSeq(all_sessions_to_schedule, LAMBDA s : s.group = g)
                  in_week(w) == Cardinality({j \in 1..Len(ss) : ss[j].course_week_number = w})
              IN  /\ Len(ss) = T
                  /\ \A j \in 1..Len(ss) : ss[j].overall_session_sequence_number = j
                  /\ {ss[j].course_week_number : j \in 1..Len(ss)} = 1..W
                  /\ \A w \in 1..(W - 1) : in_week(w) = k
                  /\ in_week(W) = T - k * (W - 1)
                  /\ T - k * (W - 1) >= 1
        /\ pc = "RETURNED" =>
              result.totalOriginalSessionsToSchedule
                  = SumSeq([g \in 1..Len(all_scheduling_groups) |->
                               all_scheduling_groups[g].course_props.totalSemesterSessions])

\* a result for two groups whose last course week is shorter than the others
C22_Witness ==
    /\ pc = "RETURNED"
    /\ Len(all_scheduling_groups) >= 2
    /\ \E g \in GroupIds :
          /\ all_scheduling_groups[g].course_props.sessionsPerWeek = 2
          /\ all_scheduling_groups[g].course_props.totalSemesterSessions = 3

\* C23: the calendar indexer numbers the active (weekIdx, dayIdx, shiftIdx) triples
\* densely from 0 in lexicographic order, one number per triple; weekIdx is
\* floor((date - start) / 7) and dayIdx a position of the date's day name in
\* daysOfWeek; details_to_global_slot and global_slot_to_details are mutual inverses;
\* two distinct active dates never have the same (weekIdx, dayIdx)
C23_CalendarIndexer ==
    pc \in {"SOLVING", "SOLVED", "RETURNED"} =>
        LET start == fromisoformat(input_dto.semesterStartDate)
            end == fromisoformat(input_dto.semesterEndDate)
            name(d) == day_name_map_from_iso[(d % 7) + 1]
            dates == {d \in start..end :
                         /\ strftime(d) \notin Range(input_dto.exceptionDates)
                         /\ name(d) \in Range(input_dto.daysOfWeek)}
            date_map == date_to_swk_day_map(input_dto)
            slot_of == details_to_global_slot(active_slot_details_list)
            pair(d) == date_map[d]
            triples == {<<pair(d)[1], pair(d)[2], sh>> :
                           d \in dates, sh \in 0..(Len(input_dto.timeSlots) - 1)}
            N == Len(active_slot_details_list)
        IN  /\ DOMAIN date_map = dates
            /\ \A d \in dates :
                  /\ pair(d)[1] = (d - start) \div 7
                  /\ pair(d)[2] + 1 \in 1..Len(input_dto.daysOfWeek)
                  /\ input_dto.daysOfWeek[pair(d)[2] + 1] = name(d)
            /\ \A d1, d2 \in dates : pair(d1) = pair(d2) => d1 = d2
            /\ Range(active_slot_details_list) = triples
            /\ N = Cardinality(triples)
            /\ \A i \in 1..N, j \in 1..N :
                  i < j => /\ TupleLeq(active_slot_details_list[i], active_slot_details_list[j])
                           /\ active_slot_details_list[i] # active_slot_details_list[j]
            /\ DOMAIN slot_of = triples
            /\ \A i \in 1..N : slot_of[active_slot_details_list[i]] = i - 1

\* a semester that starts in the middle of a week, with a holiday, whose first active
\* date is not the first date of the semester
C23_Witness ==
    /\ pc = "SOLVING"
    /\ fromisoformat(input_dto.semesterStartDate) % 7 # 0
    /\ input_dto.exceptionDates # <<>>
    /\ Len(active_slot_details_list) >= 4
    /\ active_slot_details_list[1][2] = 1

\* C24 as stated: for each existing-schedule record with known time slot and day name,
\* the record's room and the record's lecturer are marked occupied at the global slots
\* of the record's dates: from startDate to endDate, inside the semester, on the
\* record's day of the week, not a holiday
C24_Original ==
    LET dates(existing_record) ==
            {d \in fromisoformat(existing_record.startDate)
                       ..fromisoformat(existing_record.endDate) :
                /\ d \in fromisoformat(input_dto.semesterStartDate)
                             ..fromisoformat(input_dto.semesterEndDate)
                /\ day_name_map_from_iso[isoweekday(d)] = existing_record.dayOfWeek
                /\ strftime(d) \notin Range(input_dto.exceptionDates)}
        slot(existing_record, d) ==
            details_to_global_slot(active_slot_details_list)[
                <<date_to_swk_day_map(input_dto)[d][1],
                  date_to_swk_day_map(input_dto)[d][2],
                  timeslot_id_to_idx(input_dto)[existing_record.timeSlotId]>>]
    IN  pc \in {"SOLVING", "SOLVED", "RETURNED"} =>
            \A i \in 1..Len(input_dto.existingSchedules) :
                LET existing_record == input_dto.existingSchedules[i]
                IN  (/\ existing_record.timeSlotId \in DOMAIN timeslot_id_to_idx(input_dto)
                     /\ existing_record.dayOfWeek \in DOMAIN day_name_to_idx(input_dto)) =>
                        \A d \in dates(existing_record) :
                            /\ existing_record.roomId \in DOMAIN room_id_to_idx(input_dto) =>
                                  <<room_id_to_idx(input_dto)[existing_record.roomId],
                                    slot(existing_record, d)>>
                                      \in Range(occupied_room_intervals_data)
                            /\ existing_record.lecturerId
                                   \in DOMAIN lecturer_id_to_idx(input_dto) =>
                                  <<lecturer_id_to_idx(input_dto)[existing_record.lecturerId],
                                    slot(existing_record, d)>>
                                      \in Range(occupied_lecturer_intervals_data)

\* an occupied-slot record that resolves: its date is an active date, its time slot is
\* known and its resource is a room or lecturer of the request, given by its id
ResolvableOccupiedSlot(occ_slot) ==
    /\ fromisoformat(occ_slot.date) \in DOMAIN date_to_swk_day_map(input_dto)
    /\ occ_slot.timeSlotId \in DOMAIN timeslot_id_to_idx(input_dto)
    /\ isdigit(occ_slot.resourceId)
    /\ IF occ_slot.resourceType = "room"
       THEN int(occ_slot.resourceId) \in DOMAIN room_id_to_idx(input_dto)
       ELSE int(occ_slot.resourceId) \in DOMAIN lecturer_id_to_idx(input_dto)

\* C25 as stated: a request does not fail because of its occupied-slot records; every
\* resolvable record adds one pair to the occupancy of its kind and every other record
\* (on a holiday, of an unknown room, lecturer or time slot, on an inactive date, or
\* naming a room by a non-numeric identifier) adds none
C25_Original ==
    LET resolvable(kind) ==
            {i \in 1..Len(input_dto.occupiedSlots) :
                /\ input_dto.occupiedSlots[i].resourceType = kind
                /\ ResolvableOccupiedSlot(input_dto.occupiedSlots[i])}
    IN  /\ (pc = "RAISED" /\ input_dto.occupiedSlots # <<>>) =>
               BuildFailure([input_dto EXCEPT !.occupiedSlots = <<>>]) # 0
        /\ (pc = "SOLVING" /\ input_dto.existingSchedules = <<>>) =>
               /\ Len(occupied_room_intervals_data) = Cardinality(resolvable("room"))
               /\ Len(occupied_lecturer_intervals_data)
                      = Cardinality(resolvable("lecturer"))

\* C26 as stated: when the occupancy compiler produces the same (room, slot) or
\* (lecturer, slot) pair more than once, the feasible schedules are those of the
\* problem in which the pair is produced once
C26_Original ==
    LET first(list) == {i \in 1..Len(list) : \A j \in 1..(i - 1) : list[j] # list[i]}
        once(list) ==
            [k \in 1..Cardinality(first(list)) |->
                list[CHOOSE i \in first(list) :
                        Cardinality({j \in first(list) : j <= i}) = k]]
        sessions_of(rects, occupied) == SubSeq(rects, Len(occupied) + 1, Len(rects))
        solutions_with_pairs_once ==
            {values \in SeqProduct(1, Len(all_scheduling_groups)) :
                /\ NoOverlap2D(once(occupied_lecturer_intervals_data) \o
                               sessions_of(lecturer_intervals(values),
                                           occupied_lecturer_intervals_data))
                /\ NoOverlap2D(once(occupied_room_intervals_data) \o
                               sessions_of(room_intervals(values),
                                           occupied_room_intervals_data))}
    IN  (/\ pc = "SOLVING"
         /\ \/ once(occupied_room_intervals_data) # occupied_room_intervals_data
            \/ once(occupied_lecturer_intervals_data) # occupied_lecturer_intervals_data) =>
            Solutions = solutions_with_pairs_once

\* the objective the specification describes for the active terms of the strategy:
\* load imbalance with weight 10 and early start, the sum over all sessions of their
\* global slot, with weight 1
WeightedObjective(values) ==
    (IF balance_load_active(input_dto) THEN 10 * load_difference(values) ELSE 0)
    + (IF early_start_active(input_dto)
       THEN SumSeq([j \in 1..Len(all_sessions_to_schedule) |->
                       SessionSlot(j, values[all_sessions_to_schedule[j].group])])
       ELSE 0)

\* C27 as stated: a schedule returned as OPTIMAL minimises the weighted sum of the
\* active terms (load imbalance with weight 10, the sum of the sessions' global slots
\* with weight 1), and a request with strategy FEASIBLE_ONLY is solved as a pure
\* feasibility problem
C27_Original ==
    /\ (pc = "RETURNED" /\ result.solverStatus = "OPTIMAL") =>
           WeightedObjective(solver_values)
               = Min({WeightedObjective(values) : values \in Solutions})
    /\ (pc = "RAISED" /\ input_dto.objectiveStrategy.value = "FEASIBLE_ONLY") =>
           BuildFailure([input_dto EXCEPT !.objectiveStrategy = DefaultStrategy]) # 0

\* C29: in every result with status OPTIMAL or FEASIBLE the sessionsAssigned of all
\* entries of lecturerLoad sum to totalOriginalSessionsToSchedule
C29_LoadsSumToTotal ==
    (pc = "RETURNED" /\ result.solverStatus \in {"OPTIMAL", "FEASIBLE"}) =>
        SumSeq([n \in 1..Len(result.lecturerLoad) |->
                   result.lecturerLoad[n].sessionsAssigned])
            = result.totalOriginalSessionsToSchedule

\* a result in which two lecturers share at least three sessions
C29_Witness ==
    /\ pc = "RETURNED"
    /\ result.solverStatus \in {"OPTIMAL", "FEASIBLE"}
    /\ result.totalOriginalSessionsToSchedule >= 3
    /\ Cardinality({n \in 1..Len(result.lecturerLoad) :
                       result.lecturerLoad[n].sessionsAssigned > 0}) >= 2

\* the request may pass: its method is OPTIONS, or its path begins with a public path,
\* or its Authorization header is a Bearer scheme (in any letter case), one space, and
\* a token that verify_jwt accepts
MayPass ==
    \/ auth_call.method = "OPTIONS"
    \/ \E i \in 1..Len(PUBLIC_PATHS) :
          /\ Len(auth_call.path) >= Len(PUBLIC_PATHS[i])
          /\ \A k \in 1..Len(PUBLIC_PATHS[i]) : auth_call.path[k] = PUBLIC_PATHS[i][k]
    \/ /\ auth_call.auth_header # None
       /\ \E token \in ValidTokens :
             LET header == auth_call.auth_header[1]
             IN  /\ Len(header) = 7 + Len(token)
                 /\ header[1] \in {"b", "B"}
                 /\ header[2] \in {"e", "E"}
                 /\ header[3] \in {"a", "A"}
                 /\ header[4] \in {"r", "R"}
                 /\ header[5] \in {"e", "E"}
                 /\ header[6] \in {"r", "R"}
                 /\ header[7] = " "
                 /\ SubSeq(header, 8, Len(header)) = token

\* C30: dispatch hands a request to the downstream handler only if its method is
\* OPTIONS, or its path starts with a public path, or its Authorization header has the
\* scheme Bearer and a token verify_jwt accepts; every other request is answered 401
\* and the downstream handler is not invoked
C30_AuthGate ==
    /\ auth_call.pc # "IDLE" =>
          /\ auth_call.call_next => MayPass
          /\ (auth_call.pc = "RESPONDED" /\ ~MayPass) =>
                 auth_call.status_code = 401 /\ ~auth_call.call_next

\* a request for a path that is not public is answered 401 because its token has
\* expired, after the scheme was accepted
C30_Witness ==
    /\ auth_call.pc = "RESPONDED"
    /\ auth_call.method = "GET"
    /\ auth_call.scheme = <<"B", "e", "a", "r", "e", "r">>
    /\ auth_call.token \in ExpiredTokens
    /\ auth_call.status_code = 401
    /\ ~auth_call.call_next

====
